---------------------------- MODULE Spec2Model ----------------------------
(***************************************************************************)
(* Model of the developer-roadmap-validator: the TTL + LRU evidence cache  *)
(* (services/cacheService.js), the prerequisite graph and its learning     *)
(* order (config/prerequisites.js), the roadmap catalog                    *)
(* (config/roadmaps.js), gap computation and evidence enrichment           *)
(* (services/validationService.js) over the two demand providers           *)
(* (services/githubService.js, services/stackoverflowService.js).          *)
(***************************************************************************)
EXTENDS Integers, Sequences, FiniteSets, TLC

(***************************************************************************)
(* Bounds of the model.                                                    *)
(***************************************************************************)
\* Largest configured capacity (CACHE_MAX_SIZE) explored.
MaxCap == 2
\* Largest value of the clock Date.now() explored.
MaxTime == 2
\* Largest explicit ttlMs argument explored.
MaxTtl == 2
\* Largest configured default TTL (CACHE_TTL_HOURS, in clock ticks) explored.
MaxDefaultTTL == 1
\* Longest input of getLearningOrder drawn from a track's pool.
MaxInput == 4
\* Longest input of getLearningOrder on the graphs with cycles.
MaxCycleInput == 3
\* Most prerequisites of a skill in the graphs with cycles.
MaxPrereqs == 2
\* Most user skills in a validation request.
MaxUser == 3
\* Most gaps handed to addEvidenceToGaps.
MaxGaps == 2
\* Most core skills of a track in the catalogs cut short.
MaxCore == 2
\* generateKey: the largest number of properties of a params object
MaxFields == 3
\* sortGaps: the longest list sorted
MaxSortLen == 3
\* Most gap skills passed to getSuggestedNext.
MaxSuggestGaps == 3
\* Largest count passed to getSuggestedNext.
MaxCount == 3
\* Largest configured limit per key (RATE_LIMIT_PER_KEY_MAX) explored.
MaxPerKey == 2
\* Largest configured window (RATE_LIMIT_WINDOW_MS, in clock ticks) explored.
MaxWindow == 2
\* Largest value of the limiter's clock explored.
MaxRateTime == 3
\* Most requests counted for a key beyond its limit in one window.
MaxOver == 1

\* Cache keys, cached values and concurrent requests explored.
Keys == {"k1", "k2", "k3"}
\* JavaScript null: the miss value of get, and a value a caller may store.
Null == [null |-> TRUE]
Values == {Null, [v |-> "a"]}
Procs == {"p1", "p2"}
\* Overlapping getOrSet calls: the requests, keys and producer results explored.
OverlapKeys == {"k1", "k2"}
FreshValues == {[v |-> "a"], [v |-> "b"]}
\* "no key" in the bookkeeping of the last operation.
NoKey == "-"
\* The optional ttlMs argument: <<>> when not supplied (null), <<t>> otherwise.
TtlArgs == {<<>>} \cup {<<t>> : t \in {0, MaxTtl}}

VARIABLES
    cache,       \* this.cache: the Map, as its entries in insertion order
    maxSize,     \* this.maxSize
    defaultTTL,  \* this.defaultTTL
    now,         \* Date.now()
    calls,       \* the getOrSet calls suspended in `await fetchFunction()`
    last,        \* history: the last cache operation and what it returned
    lru,         \* history: the stored keys, least recently accessed first
    lastWrite    \* history: per stored key, the value written last

VARIABLES
    track,         \* the track argument of the call in progress
    skillNames,    \* getLearningOrder: the input list
    trackPrereqs,  \* getLearningOrder: PREREQUISITES[track]
    ordered,       \* getLearningOrder: the output under construction
    remaining,     \* getLearningOrder: the Set of unplaced skills, in
                   \* insertion order
    processed,     \* getLearningOrder: the Set of placed skills
    iterations,    \* getLearningOrder: passes started
    olpc,          \* getLearningOrder: where the call is
    exit,          \* history: how getLearningOrder returned
    result         \* getLearningOrder: the list returned

VARIABLES
    userSkillNames,  \* validateSkills: allUserSkillNames
    gaps,            \* validateSkills: the result of findGaps
    vpc              \* validateSkills: where the call is

VARIABLES
    lookups,           \* addEvidenceToGaps: the getSkillDemand call per gap
                       \* and provider
    gapsWithEvidence,  \* addEvidenceToGaps: the list returned
    epc                \* addEvidenceToGaps: where the call is

VARIABLES
    keyPrefix,  \* generateKey: the prefix argument
    keyParams,  \* generateKey: the params argument
    reordered,  \* generateKey: an object with the properties of params,
                \* inserted in another order
    generated,  \* generateKey: the keys returned for params and reordered
    kpc         \* generateKey: where the calls are

VARIABLES
    sortBy,      \* sortGaps: the sortBy argument
    sortedGaps,  \* sortGaps: the list returned
    spc          \* sortGaps: where the call is

VARIABLES
    today,          \* the calendar date (year, month 0..11, day) of new Date()
    trendProvider,  \* getSkillDemandOverTime: the service called
    trendSkill,     \* getSkillDemandOverTime: the skillName argument
    monthIndex,     \* getSkillDemandOverTime: the loop counter i
    monthlyData,    \* getSkillDemandOverTime: the list under construction
    trendResult,    \* getSkillDemandOverTime: what the call returned
    tpc             \* getSkillDemandOverTime: where the call is

VARIABLES
    roadmaps  \* ROADMAPS as configured: the length of the coreSkills list
              \* of each track (the list is that much of the shipped one)

VARIABLES
    method,    \* the method of ValidationService that was called
    strongSkills,  \* validateSkills: userSkillsByProficiency.strong
    sections,  \* validateFullstack: frontendGaps, backendGaps, bothGaps
    report     \* what the call returned, or the error it was rejected with

VARIABLES
    currentSkills,  \* getSuggestedNext: the currentSkills argument
    gapSkills,      \* getSuggestedNext: the gapSkills argument
    sliceCount,     \* getSuggestedNext: the count argument
    suggestions,    \* getSuggestedNext: the list returned
    npc             \* getSuggestedNext: where the call is

VARIABLES
    keyRequestStore,  \* apiKeyRateLimiter: the Map key -> {count, resetTime}
    dateNow,          \* apiKeyRateLimiter: Date.now()
    windowMs,         \* apiKeyRateLimiter: the length of a window
    maxPerKey,        \* apiKeyRateLimiter: the limit per key
    carried,          \* history: per key, the window of the requests that
                      \* carried it and how many of them were passed on
    response          \* history: the last request and what became of it

cacheVars == <<cache, maxSize, defaultTTL, now, calls, last, lru, lastWrite>>

orderVars == <<skillNames, trackPrereqs, ordered, remaining, processed,
               iterations, olpc, exit, result>>

gapVars == <<userSkillNames, gaps, vpc>>

evidenceVars == <<lookups, gapsWithEvidence, epc>>

keyVars == <<keyPrefix, keyParams, reordered, generated, kpc>>

sortVars == <<sortBy, sortedGaps, spc>>

trendVars == <<today, trendProvider, trendSkill, monthIndex, monthlyData,
               trendResult, tpc>>

validateVars == <<method, sections, report, strongSkills>>

suggestVars == <<currentSkills, gapSkills, sliceCount, suggestions, npc>>

rateVars == <<keyRequestStore, dateNow, windowMs, maxPerKey, carried,
             response>>

moreVars == <<suggestVars, rateVars>>

\* The variables of the other operations.
otherVars == <<keyVars, sortVars, trendVars, roadmaps, validateVars, moreVars>>

vars == <<cacheVars, track, orderVars, gapVars, evidenceVars, otherVars>>

\* What the operations of the cache leave alone.
notCache == <<track, orderVars, gapVars, evidenceVars, otherVars>>

(***************************************************************************)
(* The static tables of the repository.                                    *)
(***************************************************************************)
\* PREREQUISITES.frontend: skill -> its direct prerequisites.
PREREQUISITES_frontend ==
    ("HTML" :> <<>>) @@ ("CSS" :> <<"HTML">>) @@
    ("JavaScript" :> <<"HTML">>) @@ ("CSS Flexbox" :> <<"CSS">>) @@
    ("CSS Grid" :> <<"CSS">>) @@
    ("Responsive Design" :> <<"CSS", "CSS Flexbox">>) @@
    ("Sass/SCSS" :> <<"CSS">>) @@ ("CSS-in-JS" :> <<"CSS", "JavaScript">>) @@
    ("Tailwind CSS" :> <<"CSS">>) @@ ("ES6+" :> <<"JavaScript">>) @@
    ("DOM Manipulation" :> <<"JavaScript">>) @@
    ("Event Handling" :> <<"JavaScript", "DOM Manipulation">>) @@
    ("Promises" :> <<"JavaScript", "ES6+">>) @@
    ("Async/Await" :> <<"Promises">>) @@
    ("Fetch API" :> <<"Promises", "Async/Await">>) @@
    ("React" :> <<"JavaScript", "ES6+", "HTML", "CSS">>) @@
    ("Component Architecture" :> <<"React">>) @@
    ("React Hooks" :> <<"React", "Component Architecture">>) @@
    ("State Management" :> <<"React", "React Hooks">>) @@
    ("npm/yarn" :> <<"JavaScript">>) @@
    ("Babel" :> <<"JavaScript", "ES6+">>) @@
    ("Webpack" :> <<"npm/yarn", "JavaScript">>) @@
    ("Vite" :> <<"npm/yarn", "JavaScript">>) @@ ("Git" :> <<>>) @@
    ("GitHub" :> <<"Git">>) @@ ("Local Storage" :> <<"JavaScript">>) @@
    ("Web Storage" :> <<"JavaScript">>) @@
    ("Browser DevTools" :> <<"HTML", "CSS", "JavaScript">>) @@
    ("Browser Compatibility" :> <<"HTML", "CSS", "JavaScript">>) @@
    ("Performance Optimization" :> <<"JavaScript", "React">>) @@
    ("Lazy Loading" :> <<"JavaScript", "React">>) @@
    ("Code Splitting" :> <<"Webpack", "React">>) @@
    ("Unit Testing" :> <<"JavaScript">>) @@
    ("Jest" :> <<"JavaScript", "Unit Testing">>) @@
    ("React Testing Library" :> <<"React", "Jest">>) @@
    ("Web Accessibility" :> <<"HTML", "CSS">>) @@
    ("ARIA" :> <<"HTML", "Web Accessibility">>) @@
    ("TypeScript" :> <<"JavaScript", "ES6+">>) @@
    ("SEO Basics" :> <<"HTML">>) @@
    ("Progressive Web Apps" :> <<"JavaScript", "Service Workers", "Fetch API">>) @@
    ("Web Components" :> <<"JavaScript", "HTML", "CSS">>)

\* PREREQUISITES.backend: skill -> its direct prerequisites.
PREREQUISITES_backend ==
    ("JavaScript" :> <<>>) @@ ("Node.js" :> <<"JavaScript">>) @@
    ("JSON" :> <<"JavaScript">>) @@ ("HTTP/HTTPS" :> <<>>) @@
    ("Express.js" :> <<"Node.js", "JavaScript">>) @@
    ("Middleware" :> <<"Express.js">>) @@ ("Routing" :> <<"Express.js">>) @@
    ("REST APIs" :> <<"HTTP/HTTPS", "JSON">>) @@
    ("RESTful Design" :> <<"REST APIs", "Express.js">>) @@
    ("API Versioning" :> <<"RESTful Design">>) @@
    ("GraphQL" :> <<"JavaScript", "REST APIs">>) @@
    ("Error Handling" :> <<"Express.js", "REST APIs">>) @@
    ("API Testing" :> <<"REST APIs", "Unit Testing">>) @@ ("SQL" :> <<>>) @@
    ("Database Design" :> <<"SQL">>) @@
    ("PostgreSQL" :> <<"SQL", "Database Design">>) @@
    ("MySQL" :> <<"SQL", "Database Design">>) @@ ("MongoDB" :> <<"JSON">>) @@
    ("ORMs" :> <<"SQL", "Node.js">>) @@ ("Redis" :> <<"Node.js">>) @@
    ("Authentication" :> <<"Express.js", "HTTP/HTTPS">>) @@
    ("Authorization" :> <<"Authentication">>) @@
    ("JWT" :> <<"Authentication", "JSON">>) @@
    ("OAuth" :> <<"Authentication">>) @@
    ("Encryption" :> <<"JavaScript">>) @@
    ("HTTPS/TLS" :> <<"HTTP/HTTPS">>) @@ ("Promises" :> <<"JavaScript">>) @@
    ("Async/Await" :> <<"Promises", "JavaScript">>) @@
    ("Event Loop" :> <<"JavaScript", "Node.js">>) @@
    ("Unit Testing" :> <<"JavaScript">>) @@
    ("Integration Testing" :> <<"Unit Testing", "Express.js">>) @@
    ("Jest" :> <<"JavaScript", "Unit Testing">>) @@
    ("Environment Variables" :> <<"Node.js">>) @@
    ("Logging" :> <<"Node.js">>) @@
    ("Deployment" :> <<"Node.js", "Environment Variables">>) @@
    ("CI/CD Basics" :> <<"Git", "Deployment">>) @@
    ("Docker" :> <<"Node.js", "Deployment">>) @@
    ("Caching" :> <<"Node.js">>) @@ ("Rate Limiting" :> <<"Express.js">>) @@
    ("Load Balancing" :> <<"Deployment">>) @@ ("Git" :> <<>>) @@
    ("GitHub" :> <<"Git">>) @@
    ("Message Queues" :> <<"Node.js", "Async/Await">>) @@
    ("Microservices" :> <<"REST APIs", "Docker">>) @@
    ("WebSockets" :> <<"Node.js", "HTTP/HTTPS">>) @@
    ("TypeScript" :> <<"JavaScript">>)

\* PREREQUISITES.fullstack: skill -> its direct prerequisites.
PREREQUISITES_fullstack ==
    ("HTML" :> <<>>) @@ ("CSS" :> <<"HTML">>) @@
    ("JavaScript" :> <<"HTML">>) @@ ("Git" :> <<>>) @@
    ("GitHub" :> <<"Git">>) @@
    ("Responsive Design" :> <<"CSS", "CSS Flexbox">>) @@
    ("CSS Flexbox" :> <<"CSS">>) @@ ("CSS Grid" :> <<"CSS">>) @@
    ("Browser DevTools" :> <<"HTML", "CSS", "JavaScript">>) @@
    ("ES6+" :> <<"JavaScript">>) @@
    ("Async/Await" :> <<"JavaScript", "ES6+">>) @@
    ("Fetch API" :> <<"JavaScript", "Async/Await">>) @@
    ("React" :> <<"JavaScript", "ES6+", "HTML", "CSS">>) @@
    ("State Management" :> <<"React">>) @@ ("Node.js" :> <<"JavaScript">>) @@
    ("HTTP/HTTPS" :> <<>>) @@ ("REST APIs" :> <<"HTTP/HTTPS", "JSON">>) @@
    ("Express.js" :> <<"Node.js">>) @@
    ("RESTful Design" :> <<"REST APIs", "Express.js">>) @@
    ("Error Handling" :> <<"Express.js", "React">>) @@ ("SQL" :> <<>>) @@
    ("Database Design" :> <<"SQL">>) @@
    ("PostgreSQL" :> <<"SQL", "Database Design">>) @@
    ("MongoDB" :> <<"Node.js">>) @@
    ("Authentication" :> <<"Express.js", "HTTP/HTTPS">>) @@
    ("Authorization" :> <<"Authentication">>) @@
    ("JWT" :> <<"Authentication">>) @@ ("Encryption" :> <<"JavaScript">>) @@
    ("npm/yarn" :> <<"JavaScript">>) @@
    ("Webpack" :> <<"npm/yarn", "JavaScript">>) @@
    ("Environment Variables" :> <<"Node.js">>) @@
    ("Deployment" :> <<"Node.js", "Environment Variables">>) @@
    ("Unit Testing" :> <<"JavaScript">>) @@
    ("Integration Testing" :> <<"Unit Testing", "Express.js">>) @@
    ("Jest" :> <<"JavaScript", "Unit Testing">>) @@
    ("Caching" :> <<"Node.js">>) @@
    ("Performance Optimization" :> <<"JavaScript", "React">>) @@
    ("Rate Limiting" :> <<"Express.js">>) @@
    ("TypeScript" :> <<"JavaScript", "ES6+">>) @@
    ("Docker" :> <<"Node.js", "Deployment">>) @@
    ("Web Accessibility" :> <<"HTML", "CSS">>) @@ ("Logging" :> <<"Node.js">>)

\* ROADMAPS.frontend.coreSkills, in catalog order.
ROADMAPS_frontend ==
    <<
    [name |-> "HTML", weight |-> 10], [name |-> "CSS", weight |-> 10],
    [name |-> "JavaScript", weight |-> 10],
    [name |-> "Responsive Design", weight |-> 9],
    [name |-> "Browser DevTools", weight |-> 9],
    [name |-> "ES6+", weight |-> 8], [name |-> "Async/Await", weight |-> 8],
    [name |-> "Promises", weight |-> 8],
    [name |-> "DOM Manipulation", weight |-> 8],
    [name |-> "Event Handling", weight |-> 7],
    [name |-> "React", weight |-> 9],
    [name |-> "Component Architecture", weight |-> 8],
    [name |-> "State Management", weight |-> 8],
    [name |-> "React Hooks", weight |-> 8],
    [name |-> "CSS Flexbox", weight |-> 8],
    [name |-> "CSS Grid", weight |-> 8],
    [name |-> "Sass/SCSS", weight |-> 6],
    [name |-> "CSS-in-JS", weight |-> 6],
    [name |-> "Tailwind CSS", weight |-> 6],
    [name |-> "npm/yarn", weight |-> 8], [name |-> "Webpack", weight |-> 7],
    [name |-> "Vite", weight |-> 7], [name |-> "Babel", weight |-> 6],
    [name |-> "Git", weight |-> 9], [name |-> "GitHub", weight |-> 8],
    [name |-> "Fetch API", weight |-> 8],
    [name |-> "Local Storage", weight |-> 7],
    [name |-> "Web Storage", weight |-> 6],
    [name |-> "Performance Optimization", weight |-> 7],
    [name |-> "Lazy Loading", weight |-> 6],
    [name |-> "Code Splitting", weight |-> 6],
    [name |-> "Jest", weight |-> 7],
    [name |-> "React Testing Library", weight |-> 6],
    [name |-> "Unit Testing", weight |-> 7],
    [name |-> "Web Accessibility", weight |-> 7],
    [name |-> "ARIA", weight |-> 6], [name |-> "TypeScript", weight |-> 7],
    [name |-> "SEO Basics", weight |-> 6],
    [name |-> "Browser Compatibility", weight |-> 6],
    [name |-> "Progressive Web Apps", weight |-> 5],
    [name |-> "Web Components", weight |-> 5]
    >>

\* ROADMAPS.backend.coreSkills, in catalog order.
ROADMAPS_backend ==
    <<
    [name |-> "JavaScript", weight |-> 10],
    [name |-> "Node.js", weight |-> 10],
    [name |-> "HTTP/HTTPS", weight |-> 9],
    [name |-> "REST APIs", weight |-> 9], [name |-> "JSON", weight |-> 9],
    [name |-> "Express.js", weight |-> 9],
    [name |-> "Middleware", weight |-> 8],
    [name |-> "Routing", weight |-> 8], [name |-> "SQL", weight |-> 9],
    [name |-> "PostgreSQL", weight |-> 8], [name |-> "MySQL", weight |-> 8],
    [name |-> "MongoDB", weight |-> 8],
    [name |-> "Database Design", weight |-> 8],
    [name |-> "ORMs", weight |-> 7],
    [name |-> "Authentication", weight |-> 9],
    [name |-> "Authorization", weight |-> 9], [name |-> "JWT", weight |-> 8],
    [name |-> "OAuth", weight |-> 7], [name |-> "Encryption", weight |-> 8],
    [name |-> "HTTPS/TLS", weight |-> 8],
    [name |-> "RESTful Design", weight |-> 8],
    [name |-> "API Versioning", weight |-> 7],
    [name |-> "GraphQL", weight |-> 6],
    [name |-> "Error Handling", weight |-> 8],
    [name |-> "Git", weight |-> 9], [name |-> "GitHub", weight |-> 8],
    [name |-> "Async/Await", weight |-> 8],
    [name |-> "Promises", weight |-> 8],
    [name |-> "Event Loop", weight |-> 7],
    [name |-> "Unit Testing", weight |-> 8],
    [name |-> "Integration Testing", weight |-> 7],
    [name |-> "Jest", weight |-> 7], [name |-> "API Testing", weight |-> 7],
    [name |-> "Environment Variables", weight |-> 8],
    [name |-> "Logging", weight |-> 7],
    [name |-> "Deployment", weight |-> 7],
    [name |-> "CI/CD Basics", weight |-> 6],
    [name |-> "Caching", weight |-> 7],
    [name |-> "Rate Limiting", weight |-> 7],
    [name |-> "Load Balancing", weight |-> 6],
    [name |-> "Docker", weight |-> 7], [name |-> "Redis", weight |-> 6],
    [name |-> "Message Queues", weight |-> 6],
    [name |-> "Microservices", weight |-> 5],
    [name |-> "WebSockets", weight |-> 6],
    [name |-> "TypeScript", weight |-> 7]
    >>

\* ROADMAPS.fullstack.coreSkills, in catalog order.
ROADMAPS_fullstack ==
    <<
    [name |-> "HTML", weight |-> 10, section |-> "frontend"],
    [name |-> "CSS", weight |-> 10, section |-> "frontend"],
    [name |-> "JavaScript", weight |-> 10, section |-> "both"],
    [name |-> "Git", weight |-> 10, section |-> "both"],
    [name |-> "React", weight |-> 9, section |-> "frontend"],
    [name |-> "Responsive Design", weight |-> 9, section |-> "frontend"],
    [name |-> "CSS Flexbox", weight |-> 8, section |-> "frontend"],
    [name |-> "CSS Grid", weight |-> 8, section |-> "frontend"],
    [name |-> "ES6+", weight |-> 8, section |-> "both"],
    [name |-> "Async/Await", weight |-> 8, section |-> "both"],
    [name |-> "Fetch API", weight |-> 8, section |-> "frontend"],
    [name |-> "Node.js", weight |-> 10, section |-> "backend"],
    [name |-> "Express.js", weight |-> 9, section |-> "backend"],
    [name |-> "REST APIs", weight |-> 9, section |-> "backend"],
    [name |-> "HTTP/HTTPS", weight |-> 9, section |-> "backend"],
    [name |-> "SQL", weight |-> 9, section |-> "backend"],
    [name |-> "Authentication", weight |-> 9, section |-> "backend"],
    [name |-> "Database Design", weight |-> 8, section |-> "backend"],
    [name |-> "RESTful Design", weight |-> 9, section |-> "both"],
    [name |-> "State Management", weight |-> 8, section |-> "frontend"],
    [name |-> "Error Handling", weight |-> 8, section |-> "both"],
    [name |-> "Environment Variables", weight |-> 8, section |-> "backend"],
    [name |-> "PostgreSQL", weight |-> 8, section |-> "backend"],
    [name |-> "MongoDB", weight |-> 7, section |-> "backend"],
    [name |-> "Authorization", weight |-> 8, section |-> "backend"],
    [name |-> "JWT", weight |-> 8, section |-> "backend"],
    [name |-> "Encryption", weight |-> 7, section |-> "backend"],
    [name |-> "npm/yarn", weight |-> 8, section |-> "both"],
    [name |-> "Webpack", weight |-> 7, section |-> "frontend"],
    [name |-> "Deployment", weight |-> 8, section |-> "backend"],
    [name |-> "Unit Testing", weight |-> 8, section |-> "both"],
    [name |-> "Integration Testing", weight |-> 7, section |-> "backend"],
    [name |-> "Jest", weight |-> 7, section |-> "both"],
    [name |-> "Caching", weight |-> 7, section |-> "backend"],
    [name |-> "Performance Optimization", weight |-> 7, section |-> "frontend"],
    [name |-> "Rate Limiting", weight |-> 7, section |-> "backend"],
    [name |-> "TypeScript", weight |-> 7, section |-> "both"],
    [name |-> "Docker", weight |-> 7, section |-> "backend"],
    [name |-> "Web Accessibility", weight |-> 7, section |-> "frontend"],
    [name |-> "Logging", weight |-> 7, section |-> "backend"],
    [name |-> "Browser DevTools", weight |-> 7, section |-> "frontend"]
    >>

\* The UTF-16 code units of the strings that occur as skill names and of the
\* string literals of the key, query and tag builders.
CodeUnits ==
    ("HTML" :> <<72, 84, 77, 76>>) @@ ("CSS" :> <<67, 83, 83>>) @@
    ("JavaScript" :> <<74, 97, 118, 97, 83, 99, 114, 105, 112, 116>>) @@
    ("CSS Flexbox" :> <<67, 83, 83, 32, 70, 108, 101, 120, 98, 111, 120>>) @@
    ("CSS Grid" :> <<67, 83, 83, 32, 71, 114, 105, 100>>) @@
    ("Responsive Design" :> <<82, 101, 115, 112, 111, 110, 115, 105, 118, 101, 32, 68, 101, 115, 105, 103, 110>>) @@
    ("Sass/SCSS" :> <<83, 97, 115, 115, 47, 83, 67, 83, 83>>) @@
    ("CSS-in-JS" :> <<67, 83, 83, 45, 105, 110, 45, 74, 83>>) @@
    ("Tailwind CSS" :> <<84, 97, 105, 108, 119, 105, 110, 100, 32, 67, 83, 83>>) @@
    ("ES6+" :> <<69, 83, 54, 43>>) @@
    ("DOM Manipulation" :> <<68, 79, 77, 32, 77, 97, 110, 105, 112, 117, 108, 97, 116, 105, 111, 110>>) @@
    ("Event Handling" :> <<69, 118, 101, 110, 116, 32, 72, 97, 110, 100, 108, 105, 110, 103>>) @@
    ("Promises" :> <<80, 114, 111, 109, 105, 115, 101, 115>>) @@
    ("Async/Await" :> <<65, 115, 121, 110, 99, 47, 65, 119, 97, 105, 116>>) @@
    ("Fetch API" :> <<70, 101, 116, 99, 104, 32, 65, 80, 73>>) @@
    ("React" :> <<82, 101, 97, 99, 116>>) @@
    ("Component Architecture" :> <<67, 111, 109, 112, 111, 110, 101, 110, 116, 32, 65, 114, 99, 104, 105, 116, 101, 99, 116, 117, 114, 101>>) @@
    ("React Hooks" :> <<82, 101, 97, 99, 116, 32, 72, 111, 111, 107, 115>>) @@
    ("State Management" :> <<83, 116, 97, 116, 101, 32, 77, 97, 110, 97, 103, 101, 109, 101, 110, 116>>) @@
    ("npm/yarn" :> <<110, 112, 109, 47, 121, 97, 114, 110>>) @@
    ("Babel" :> <<66, 97, 98, 101, 108>>) @@
    ("Webpack" :> <<87, 101, 98, 112, 97, 99, 107>>) @@
    ("Vite" :> <<86, 105, 116, 101>>) @@ ("Git" :> <<71, 105, 116>>) @@
    ("GitHub" :> <<71, 105, 116, 72, 117, 98>>) @@
    ("Local Storage" :> <<76, 111, 99, 97, 108, 32, 83, 116, 111, 114, 97, 103, 101>>) @@
    ("Web Storage" :> <<87, 101, 98, 32, 83, 116, 111, 114, 97, 103, 101>>) @@
    ("Browser DevTools" :> <<66, 114, 111, 119, 115, 101, 114, 32, 68, 101, 118, 84, 111, 111, 108, 115>>) @@
    ("Browser Compatibility" :> <<66, 114, 111, 119, 115, 101, 114, 32, 67, 111, 109, 112, 97, 116, 105, 98, 105, 108, 105, 116, 121>>) @@
    ("Performance Optimization" :> <<80, 101, 114, 102, 111, 114, 109, 97, 110, 99, 101, 32, 79, 112, 116, 105, 109, 105, 122, 97, 116, 105, 111, 110>>) @@
    ("Lazy Loading" :> <<76, 97, 122, 121, 32, 76, 111, 97, 100, 105, 110, 103>>) @@
    ("Code Splitting" :> <<67, 111, 100, 101, 32, 83, 112, 108, 105, 116, 116, 105, 110, 103>>) @@
    ("Unit Testing" :> <<85, 110, 105, 116, 32, 84, 101, 115, 116, 105, 110, 103>>) @@
    ("Jest" :> <<74, 101, 115, 116>>) @@
    ("React Testing Library" :> <<82, 101, 97, 99, 116, 32, 84, 101, 115, 116, 105, 110, 103, 32, 76, 105, 98, 114, 97, 114, 121>>) @@
    ("Web Accessibility" :> <<87, 101, 98, 32, 65, 99, 99, 101, 115, 115, 105, 98, 105, 108, 105, 116, 121>>) @@
    ("ARIA" :> <<65, 82, 73, 65>>) @@
    ("TypeScript" :> <<84, 121, 112, 101, 83, 99, 114, 105, 112, 116>>) @@
    ("SEO Basics" :> <<83, 69, 79, 32, 66, 97, 115, 105, 99, 115>>) @@
    ("Progressive Web Apps" :> <<80, 114, 111, 103, 114, 101, 115, 115, 105, 118, 101, 32, 87, 101, 98, 32, 65, 112, 112, 115>>) @@
    ("Service Workers" :> <<83, 101, 114, 118, 105, 99, 101, 32, 87, 111, 114, 107, 101, 114, 115>>) @@
    ("Web Components" :> <<87, 101, 98, 32, 67, 111, 109, 112, 111, 110, 101, 110, 116, 115>>) @@
    ("Node.js" :> <<78, 111, 100, 101, 46, 106, 115>>) @@
    ("JSON" :> <<74, 83, 79, 78>>) @@
    ("HTTP/HTTPS" :> <<72, 84, 84, 80, 47, 72, 84, 84, 80, 83>>) @@
    ("Express.js" :> <<69, 120, 112, 114, 101, 115, 115, 46, 106, 115>>) @@
    ("Middleware" :> <<77, 105, 100, 100, 108, 101, 119, 97, 114, 101>>) @@
    ("Routing" :> <<82, 111, 117, 116, 105, 110, 103>>) @@
    ("REST APIs" :> <<82, 69, 83, 84, 32, 65, 80, 73, 115>>) @@
    ("RESTful Design" :> <<82, 69, 83, 84, 102, 117, 108, 32, 68, 101, 115, 105, 103, 110>>) @@
    ("API Versioning" :> <<65, 80, 73, 32, 86, 101, 114, 115, 105, 111, 110, 105, 110, 103>>) @@
    ("GraphQL" :> <<71, 114, 97, 112, 104, 81, 76>>) @@
    ("Error Handling" :> <<69, 114, 114, 111, 114, 32, 72, 97, 110, 100, 108, 105, 110, 103>>) @@
    ("API Testing" :> <<65, 80, 73, 32, 84, 101, 115, 116, 105, 110, 103>>) @@
    ("SQL" :> <<83, 81, 76>>) @@
    ("Database Design" :> <<68, 97, 116, 97, 98, 97, 115, 101, 32, 68, 101, 115, 105, 103, 110>>) @@
    ("PostgreSQL" :> <<80, 111, 115, 116, 103, 114, 101, 83, 81, 76>>) @@
    ("MySQL" :> <<77, 121, 83, 81, 76>>) @@
    ("MongoDB" :> <<77, 111, 110, 103, 111, 68, 66>>) @@
    ("ORMs" :> <<79, 82, 77, 115>>) @@
    ("Redis" :> <<82, 101, 100, 105, 115>>) @@
    ("Authentication" :> <<65, 117, 116, 104, 101, 110, 116, 105, 99, 97, 116, 105, 111, 110>>) @@
    ("Authorization" :> <<65, 117, 116, 104, 111, 114, 105, 122, 97, 116, 105, 111, 110>>) @@
    ("JWT" :> <<74, 87, 84>>) @@ ("OAuth" :> <<79, 65, 117, 116, 104>>) @@
    ("Encryption" :> <<69, 110, 99, 114, 121, 112, 116, 105, 111, 110>>) @@
    ("HTTPS/TLS" :> <<72, 84, 84, 80, 83, 47, 84, 76, 83>>) @@
    ("Event Loop" :> <<69, 118, 101, 110, 116, 32, 76, 111, 111, 112>>) @@
    ("Integration Testing" :> <<73, 110, 116, 101, 103, 114, 97, 116, 105, 111, 110, 32, 84, 101, 115, 116, 105, 110, 103>>) @@
    ("Environment Variables" :> <<69, 110, 118, 105, 114, 111, 110, 109, 101, 110, 116, 32, 86, 97, 114, 105, 97, 98, 108, 101, 115>>) @@
    ("Logging" :> <<76, 111, 103, 103, 105, 110, 103>>) @@
    ("Deployment" :> <<68, 101, 112, 108, 111, 121, 109, 101, 110, 116>>) @@
    ("CI/CD Basics" :> <<67, 73, 47, 67, 68, 32, 66, 97, 115, 105, 99, 115>>) @@
    ("Docker" :> <<68, 111, 99, 107, 101, 114>>) @@
    ("Caching" :> <<67, 97, 99, 104, 105, 110, 103>>) @@
    ("Rate Limiting" :> <<82, 97, 116, 101, 32, 76, 105, 109, 105, 116, 105, 110, 103>>) @@
    ("Load Balancing" :> <<76, 111, 97, 100, 32, 66, 97, 108, 97, 110, 99, 105, 110, 103>>) @@
    ("Message Queues" :> <<77, 101, 115, 115, 97, 103, 101, 32, 81, 117, 101, 117, 101, 115>>) @@
    ("Microservices" :> <<77, 105, 99, 114, 111, 115, 101, 114, 118, 105, 99, 101, 115>>) @@
    ("WebSockets" :> <<87, 101, 98, 83, 111, 99, 107, 101, 116, 115>>) @@
    ("A" :> <<65>>) @@ ("B" :> <<66>>) @@ ("C" :> <<67>>) @@
    ("X" :> <<88>>) @@ ("html" :> <<104, 116, 109, 108>>) @@
    ("Html" :> <<72, 116, 109, 108>>) @@
    ("REACT" :> <<82, 69, 65, 67, 84>>) @@
    ("react" :> <<114, 101, 97, 99, 116>>) @@
    ("es6+" :> <<101, 115, 54, 43>>) @@ ("Rust" :> <<82, 117, 115, 116>>) @@
    ("css grid" :> <<99, 115, 115, 32, 103, 114, 105, 100>>) @@
    ("node.js" :> <<110, 111, 100, 101, 46, 106, 115>>) @@
    ("GIT" :> <<71, 73, 84>>) @@ ("sql" :> <<115, 113, 108>>) @@
    ("javascript" :> <<106, 97, 118, 97, 115, 99, 114, 105, 112, 116>>) @@
    ("Kotlin" :> <<75, 111, 116, 108, 105, 110>>) @@
    ("plus" :> <<112, 108, 117, 115>>) @@ ("js" :> <<106, 115>>) @@
    ("typescript" :> <<116, 121, 112, 101, 115, 99, 114, 105, 112, 116>>) @@
    ("ts" :> <<116, 115>>) @@
    ("nodejs" :> <<110, 111, 100, 101, 106, 115>>) @@
    ("reactjs" :> <<114, 101, 97, 99, 116, 106, 115>>) @@
    ("expressjs" :> <<101, 120, 112, 114, 101, 115, 115, 106, 115>>) @@
    ("express" :> <<101, 120, 112, 114, 101, 115, 115>>) @@
    ("express.js" :> <<101, 120, 112, 114, 101, 115, 115, 46, 106, 115>>) @@
    ("mongodb" :> <<109, 111, 110, 103, 111, 100, 98>>) @@
    ("mongo" :> <<109, 111, 110, 103, 111>>) @@
    ("postgresql" :> <<112, 111, 115, 116, 103, 114, 101, 115, 113, 108>>) @@
    ("postgres" :> <<112, 111, 115, 116, 103, 114, 101, 115>>) @@
    ("css3" :> <<99, 115, 115, 51>>) @@ ("css" :> <<99, 115, 115>>) @@
    ("html5" :> <<104, 116, 109, 108, 53>>) @@ ("es6" :> <<101, 115, 54>>) @@
    ("ecmascript-6" :> <<101, 99, 109, 97, 115, 99, 114, 105, 112, 116, 45, 54>>) @@
    ("async-await" :> <<97, 115, 121, 110, 99, 45, 97, 119, 97, 105, 116>>) @@
    ("jwt" :> <<106, 119, 116>>) @@
    ("json-web-token" :> <<106, 115, 111, 110, 45, 119, 101, 98, 45, 116, 111, 107, 101, 110>>) @@
    ("oauth" :> <<111, 97, 117, 116, 104>>) @@
    ("oauth-2.0" :> <<111, 97, 117, 116, 104, 45, 50, 46, 48>>) @@
    ("skill" :> <<115, 107, 105, 108, 108>>) @@
    ("track" :> <<116, 114, 97, 99, 107>>) @@
    ("months" :> <<109, 111, 110, 116, 104, 115>>) @@
    ("query" :> <<113, 117, 101, 114, 121>>) @@
    ("sort" :> <<115, 111, 114, 116>>) @@
    ("order" :> <<111, 114, 100, 101, 114>>) @@
    ("perPage" :> <<112, 101, 114, 80, 97, 103, 101>>) @@
    ("tags" :> <<116, 97, 103, 115>>) @@
    ("fromDate" :> <<102, 114, 111, 109, 68, 97, 116, 101>>) @@
    ("toDate" :> <<116, 111, 68, 97, 116, 101>>) @@
    ("pageSize" :> <<112, 97, 103, 101, 83, 105, 122, 101>>) @@
    ("github:demand" :> <<103, 105, 116, 104, 117, 98, 58, 100, 101, 109, 97, 110, 100>>) @@
    ("stackoverflow:demand" :> <<115, 116, 97, 99, 107, 111, 118, 101, 114, 102, 108, 111, 119, 58, 100, 101, 109, 97, 110, 100>>) @@
    ("github:search" :> <<103, 105, 116, 104, 117, 98, 58, 115, 101, 97, 114, 99, 104>>) @@
    ("stackoverflow:search" :> <<115, 116, 97, 99, 107, 111, 118, 101, 114, 102, 108, 111, 119, 58, 115, 101, 97, 114, 99, 104>>) @@
    ("github:demand-trend" :> <<103, 105, 116, 104, 117, 98, 58, 100, 101, 109, 97, 110, 100, 45, 116, 114, 101, 110, 100>>) @@
    ("stackoverflow:demand-trend" :> <<115, 116, 97, 99, 107, 111, 118, 101, 114, 102, 108, 111, 119, 58, 100, 101, 109, 97, 110, 100, 45, 116, 114, 101, 110, 100>>) @@
    ("stars" :> <<115, 116, 97, 114, 115>>) @@
    ("desc" :> <<100, 101, 115, 99>>) @@
    ("activity" :> <<97, 99, 116, 105, 118, 105, 116, 121>>) @@
    ("all" :> <<97, 108, 108>>) @@
    ("frontend" :> <<102, 114, 111, 110, 116, 101, 110, 100>>) @@
    ("backend" :> <<98, 97, 99, 107, 101, 110, 100>>) @@
    ("fullstack" :> <<102, 117, 108, 108, 115, 116, 97, 99, 107>>) @@
    ("mobile" :> <<109, 111, 98, 105, 108, 101>>) @@
    ("constructor" :> <<99, 111, 110, 115, 116, 114, 117, 99, 116, 111, 114>>) @@
    ("NaN" :> <<78, 97, 78>>) @@
    ("-Infinity" :> <<45, 73, 110, 102, 105, 110, 105, 116, 121>>) @@
    (" in:readme,description" :> <<32, 105, 110, 58, 114, 101, 97, 100, 109, 101, 44, 100, 101, 115, 99, 114, 105, 112, 116, 105, 111, 110>>) @@
    (" frontend OR client-side OR browser" :> <<32, 102, 114, 111, 110, 116, 101, 110, 100, 32, 79, 82, 32, 99, 108, 105, 101, 110, 116, 45, 115, 105, 100, 101, 32, 79, 82, 32, 98, 114, 111, 119, 115, 101, 114>>) @@
    (" backend OR server-side OR api" :> <<32, 98, 97, 99, 107, 101, 110, 100, 32, 79, 82, 32, 115, 101, 114, 118, 101, 114, 45, 115, 105, 100, 101, 32, 79, 82, 32, 97, 112, 105>>) @@
    (" fullstack OR full-stack OR web-development" :> <<32, 102, 117, 108, 108, 115, 116, 97, 99, 107, 32, 79, 82, 32, 102, 117, 108, 108, 45, 115, 116, 97, 99, 107, 32, 79, 82, 32, 119, 101, 98, 45, 100, 101, 118, 101, 108, 111, 112, 109, 101, 110, 116>>) @@
    (" created:" :> <<32, 99, 114, 101, 97, 116, 101, 100, 58>>) @@
    (".." :> <<46, 46>>) @@ ("a" :> <<97>>) @@ ("b" :> <<98>>) @@
    ("c" :> <<99>>) @@ ("1" :> <<49>>) @@ ("2" :> <<50>>) @@
    ("1|b:2" :> <<49, 124, 98, 58, 50>>) @@
    ("Prerequisites met" :> <<80, 114, 101, 114, 101, 113, 117, 105, 115, 105, 116, 101, 115, 32, 109, 101, 116>>) @@
    ("Learn " :> <<76, 101, 97, 114, 110, 32>>) @@ (" first" :> <<32, 102, 105, 114, 115, 116>>)

(***************************************************************************)
(* The Map of CacheService.                                                *)
(***************************************************************************)
KeysOf(c) == {c[i].key : i \in 1..Len(c)}

HasKey(c, key) == key \in KeysOf(c)

EntryOf(c, key) == c[CHOOSE i \in 1..Len(c) : c[i].key = key]

\* Map.prototype.delete
MapDelete(c, key) == SelectSeq(c, LAMBDA e : e.key # key)

\* Mutant of MapSet: the first value written for a key is kept.
MapSet_keepFirst(c, key, entry) ==
    IF HasKey(c, key) THEN c ELSE Append(c, entry)

\* Map.prototype.set: an existing key keeps its position, a new key goes last.
MapSet(c, key, entry) ==
    IF HasKey(c, key)
    THEN [i \in 1..Len(c) |-> IF c[i].key = key THEN entry ELSE c[i]]
    ELSE Append(c, entry)

\* ttlMs || this.defaultTTL: null and 0 are falsy.
EffectiveTtl(ttlMs) ==
    IF ttlMs = <<>> THEN defaultTTL
    ELSE IF ttlMs[1] = 0 THEN defaultTTL ELSE ttlMs[1]

\* Mutant of set: evicts only once the Map has grown past maxSize.
set_evictLate(c, key, value, ttlMs, t) ==
    LET expiry == t + EffectiveTtl(ttlMs)
        c1 == IF Len(c) > maxSize /\ ~HasKey(c, key)
              THEN (IF Len(c) = 0 THEN c ELSE MapDelete(c, c[1].key))
              ELSE c
    IN  MapSet(c1, key, [key |-> key, value |-> value, expiry |-> expiry])

\* CacheService.set: the Map after set(key, value, ttlMs) at time t. (The
\* entry's createdAt field is written here and read nowhere; it is left out.)
set(c, key, value, ttlMs, t) ==
    LET expiry == t + EffectiveTtl(ttlMs)
        c1 == IF Len(c) >= maxSize /\ ~HasKey(c, key)
              THEN (IF Len(c) = 0 THEN c ELSE MapDelete(c, c[1].key))
              ELSE c
    IN  MapSet(c1, key, [key |-> key, value |-> value, expiry |-> expiry])

\* Mutant of get: no expiry check.
get_noExpiry(c, key, t) ==
    IF ~HasKey(c, key)
    THEN [cache |-> c, ret |-> Null]
    ELSE LET entry == EntryOf(c, key)
         IN  [cache |-> Append(MapDelete(c, key), entry), ret |-> entry.value]

\* Mutant of get: an entry already counts as expired at its expiry time.
get_expiresEarly(c, key, t) ==
    IF ~HasKey(c, key)
    THEN [cache |-> c, ret |-> Null]
    ELSE LET entry == EntryOf(c, key)
         IN  IF t >= entry.expiry
             THEN [cache |-> MapDelete(c, key), ret |-> Null]
             ELSE [cache |-> Append(MapDelete(c, key), entry),
                   ret |-> entry.value]

\* Mutant of get: a hit does not move the entry to the end of the Map.
get_noPromote(c, key, t) ==
    IF ~HasKey(c, key)
    THEN [cache |-> c, ret |-> Null]
    ELSE LET entry == EntryOf(c, key)
         IN  IF t > entry.expiry
             THEN [cache |-> MapDelete(c, key), ret |-> Null]
             ELSE [cache |-> c, ret |-> entry.value]

\* CacheService.get: the Map after get(key) at time t, and the value returned.
get(c, key, t) ==
    IF ~HasKey(c, key)
    THEN [cache |-> c, ret |-> Null]
    ELSE LET entry == EntryOf(c, key)
         IN  IF t > entry.expiry
             THEN [cache |-> MapDelete(c, key), ret |-> Null]
             ELSE [cache |-> Append(MapDelete(c, key), entry),
                   ret |-> entry.value]

\* Mutant of cleanExpired: an entry is swept from its expiry time on.
cleanExpired_atExpiry(c, t) ==
    LET kept == SelectSeq(c, LAMBDA e : ~(t >= e.expiry))
    IN  [cache |-> kept, removed |-> Len(c) - Len(kept)]

\* CacheService.cleanExpired: the Map after the sweep, and the number removed.
cleanExpired(c, t) ==
    LET kept == SelectSeq(c, LAMBDA e : ~(t > e.expiry))
    IN  [cache |-> kept, removed |-> Len(c) - Len(kept)]

(***************************************************************************)
(* History bookkeeping (not program state).                                *)
(***************************************************************************)
\* key becomes the most recently accessed one.
Touch(l, key) == Append(SelectSeq(l, LAMBDA k : k # key), key)

\* Only stored keys have a recency.
Restrict(l, c) == SelectSeq(l, LAMBDA k : k \in KeysOf(c))

\* The key a step evicted: stored before, not the key operated on, gone after.
Evicted(c, c2, key) ==
    LET gone == {k \in KeysOf(c) : k # key /\ k \notin KeysOf(c2)}
    IN  IF gone = {} THEN NoKey ELSE CHOOSE k \in gone : TRUE

\* The record of an operation: which one, by whom, on what key, what it returned
\* (data, fromCache, threw), what it evicted and how many entries it removed;
\* retry: a getOrSet that follows a failed getOrSet of the same key; overlap: a
\* getOrSet that was suspended while another one for the same key was.
Op(op, proc, key, data) ==
    [op |-> op, proc |-> proc, key |-> key, data |-> data, fromCache |-> FALSE,
     threw |-> FALSE, evicted |-> NoKey, removed |-> 0, retry |-> FALSE,
     overlap |-> FALSE]

Forget(w, c) == [k \in Keys |-> IF k \in KeysOf(c) THEN w[k] ELSE Null]

IdleCall == [pc |-> "idle", key |-> NoKey, ttlMs |-> <<>>]

\* An entry of key is stored and the clock is not past its expiry.
Live(c, key, t) == HasKey(c, key) /\ ~(t > EntryOf(c, key).expiry)

(***************************************************************************)
(* The cache: initial state and operations.                                *)
(***************************************************************************)
CacheInit ==
    /\ cache = <<>>
    /\ maxSize \in 1..MaxCap
    /\ defaultTTL \in 1..MaxDefaultTTL
    /\ now = 0
    /\ calls = [p \in Procs |-> IdleCall]
    /\ last = Op("init", NoKey, NoKey, Null)
    /\ lru = <<>>
    /\ lastWrite = [k \in Keys |-> Null]

\* Time passes.
Tick ==
    /\ now < MaxTime
    /\ now' = now + 1
    /\ UNCHANGED <<notCache, cache, maxSize, defaultTTL, calls, last, lru,
                   lastWrite>>

\* cacheService.set(key, value, ttlMs)
CallSet(key, value, ttlMs) ==
    LET c2 == set(cache, key, value, ttlMs, now)
    IN  /\ cache' = c2
        /\ last' = [Op("set", NoKey, key, value)
                      EXCEPT !.evicted = Evicted(cache, c2, key)]
        /\ lru' = Restrict(IF HasKey(cache, key) THEN lru ELSE Touch(lru, key), c2)
        /\ lastWrite' = Forget([lastWrite EXCEPT ![key] = value], c2)
        /\ UNCHANGED <<notCache, maxSize, defaultTTL, now, calls>>

\* cacheService.get(key)
CallGet(key) ==
    LET r == get(cache, key, now)
    IN  /\ cache' = r.cache
        /\ last' = [Op("get", NoKey, key, r.ret)
                      EXCEPT !.removed = Len(cache) - Len(r.cache)]
        /\ lru' = Restrict(IF Live(cache, key, now) THEN Touch(lru, key) ELSE lru,
                           r.cache)
        /\ lastWrite' = Forget(lastWrite, r.cache)
        /\ UNCHANGED <<notCache, maxSize, defaultTTL, now, calls>>

\* cacheService.has(key): this.get(key) !== null
CallHas(key) ==
    LET r == get(cache, key, now)
    IN  /\ cache' = r.cache
        /\ last' = [Op("has", NoKey, key, IF r.ret # Null THEN "true" ELSE "false")
                      EXCEPT !.removed = Len(cache) - Len(r.cache)]
        /\ lru' = Restrict(IF Live(cache, key, now) THEN Touch(lru, key) ELSE lru,
                           r.cache)
        /\ lastWrite' = Forget(lastWrite, r.cache)
        /\ UNCHANGED <<notCache, maxSize, defaultTTL, now, calls>>

\* cacheService.delete(key)
CallDelete(key) ==
    LET c2 == MapDelete(cache, key)
    IN  /\ cache' = c2
        /\ last' = [Op("delete", NoKey, key,
                         IF HasKey(cache, key) THEN "true" ELSE "false")
                      EXCEPT !.removed = Len(cache) - Len(c2)]
        /\ lru' = Restrict(lru, c2)
        /\ lastWrite' = Forget(lastWrite, c2)
        /\ UNCHANGED <<notCache, maxSize, defaultTTL, now, calls>>

\* cacheService.clear()
CallClear ==
    /\ cache' = <<>>
    /\ last' = [Op("clear", NoKey, NoKey, Null) EXCEPT !.removed = Len(cache)]
    /\ lru' = <<>>
    /\ lastWrite' = [k \in Keys |-> Null]
    /\ UNCHANGED <<notCache, maxSize, defaultTTL, now, calls>>

\* cacheService.cleanExpired(), called by the hourly interval timer
CallCleanExpired ==
    LET r == cleanExpired(cache, now)
    IN  /\ cache' = r.cache
        /\ last' = [Op("cleanExpired", NoKey, NoKey, Null)
                      EXCEPT !.removed = r.removed]
        /\ lru' = Restrict(lru, r.cache)
        /\ lastWrite' = Forget(lastWrite, r.cache)
        /\ UNCHANGED <<notCache, maxSize, defaultTTL, now, calls>>

\* Another call is suspended in its producer for the same key.
Overlaps(p, key) ==
    \E q \in Procs \ {p} : calls[q].pc = "fetching" /\ calls[q].key = key

\* The last operation completed another call that overlapped this one.
OverlapEnds(p, key) ==
    last.op = "getOrSet" /\ last.proc # p /\ last.key = key /\ last.overlap

\* cacheService.getOrSet(key, fetchFunction, ttlMs) up to its await: a hit
\* returns at once, a miss invokes fetchFunction and suspends.
GetOrSetCall(p, key, ttlMs) ==
    LET r == get(cache, key, now)
    IN  /\ calls[p].pc = "idle"
        /\ cache' = r.cache
        /\ lru' = Restrict(IF Live(cache, key, now) THEN Touch(lru, key) ELSE lru,
                           r.cache)
        /\ lastWrite' = Forget(lastWrite, r.cache)
        /\ IF r.ret # Null
           THEN /\ calls' = calls
                /\ last' = [Op("getOrSet", p, key, r.ret) EXCEPT !.fromCache = TRUE]
           ELSE /\ calls' = [calls EXCEPT ![p] =
                                [pc |-> "fetching", key |-> key, ttlMs |-> ttlMs]]
                /\ last' = [Op("fetch", p, key, Null) EXCEPT
                              !.removed = Len(cache) - Len(r.cache),
                              !.retry = (last.op = "getOrSet" /\ last.threw
                                         /\ last.key = key),
                              !.overlap = Overlaps(p, key)]
        /\ UNCHANGED <<notCache, maxSize, defaultTTL, now>>

\* fetchFunction() resolves with freshData: getOrSet stores and returns it.
FetchResolve(p, freshData) ==
    LET key == calls[p].key
        c2 == set(cache, key, freshData, calls[p].ttlMs, now)
    IN  /\ calls[p].pc = "fetching"
        /\ cache' = c2
        /\ calls' = [calls EXCEPT ![p] = IdleCall]
        /\ last' = [Op("getOrSet", p, key, freshData) EXCEPT
                      !.evicted = Evicted(cache, c2, key),
                      !.overlap = Overlaps(p, key) \/ OverlapEnds(p, key)]
        /\ lru' = Restrict(IF HasKey(cache, key) THEN lru ELSE Touch(lru, key), c2)
        /\ lastWrite' = Forget([lastWrite EXCEPT ![key] = freshData], c2)
        /\ UNCHANGED <<notCache, maxSize, defaultTTL, now>>

\* Mutant of FetchReject: the failure is cached as a null result.
FetchReject_cachesFailure(p) ==
    LET key == calls[p].key
        c2 == set(cache, key, Null, calls[p].ttlMs, now)
    IN  /\ calls[p].pc = "fetching"
        /\ cache' = c2
        /\ calls' = [calls EXCEPT ![p] = IdleCall]
        /\ last' = [Op("getOrSet", p, key, Null) EXCEPT !.threw = TRUE]
        /\ lru' = Restrict(IF HasKey(cache, key) THEN lru ELSE Touch(lru, key), c2)
        /\ lastWrite' = Forget([lastWrite EXCEPT ![key] = Null], c2)
        /\ UNCHANGED <<notCache, maxSize, defaultTTL, now>>

\* fetchFunction() rejects: the await throws and getOrSet stores nothing.
FetchReject(p) ==
    LET key == calls[p].key
    IN  /\ calls[p].pc = "fetching"
        /\ cache' = cache
        /\ calls' = [calls EXCEPT ![p] = IdleCall]
        /\ last' = [Op("getOrSet", p, key, Null) EXCEPT !.threw = TRUE]
        /\ UNCHANGED <<notCache, maxSize, defaultTTL, now, lru, lastWrite>>

\* The operations of requests P on keys K storing values V with ttl arguments T.
CacheStep(P, K, V, T) ==
    \/ Tick
    \/ \E key \in K, value \in V, ttlMs \in T : CallSet(key, value, ttlMs)
    \/ \E key \in K : CallGet(key)
    \/ \E key \in K : CallHas(key)
    \/ \E key \in K : CallDelete(key)
    \/ CallClear
    \/ CallCleanExpired
    \/ \E p \in P, key \in K, ttlMs \in T : GetOrSetCall(p, key, ttlMs)
    \/ \E p \in P, freshData \in V : FetchResolve(p, freshData)
    \/ \E p \in P : FetchReject(p)

CacheNext == CacheStep({"p1"}, Keys, Values, TtlArgs)

OverlapNext == CacheStep(Procs, OverlapKeys, FreshValues, {<<>>})

\* The keys and values explored with the interval timer's sweep.
SweepKeys == {"k1", "k2"}
SweepValues == {[v |-> "a"]}

SweepNext == CacheStep({"p1"}, SweepKeys, SweepValues, {<<>>})

(***************************************************************************)
(* JavaScript strings: comparison and sorting by UTF-16 code units.        *)
(***************************************************************************)
\* a < b for strings: the first differing code unit decides, a proper prefix
\* is smaller.
StrLess(a, b) ==
    LET Less(u, v) ==
            \E i \in 1..(Len(v)) :
              /\ \A j \in 1..(i - 1) : j <= Len(u) /\ u[j] = v[j]
              /\ i - 1 <= Len(u)
              /\ (i > Len(u) \/ u[i] < v[i])
        Compare(units) == Less(units[a], units[b])
    IN  Compare(CodeUnits)

\* Array.from(aSet).sort(): the strings of S in ascending order.
RECURSIVE SortStrings(_)
SortStrings(S) ==
    IF S = {} THEN <<>>
    ELSE LET m == CHOOSE x \in S : \A y \in S \ {x} : StrLess(x, y)
         IN  <<m>> \o SortStrings(S \ {m})

Range(s) == {s[i] : i \in 1..Len(s)}

\* new Set(array): the distinct elements, in order of first occurrence.
RECURSIVE NewSet(_)
NewSet(s) ==
    IF s = <<>> THEN <<>>
    ELSE LET front == NewSet(SubSeq(s, 1, Len(s) - 1))
         IN  IF s[Len(s)] \in Range(front) THEN front
             ELSE Append(front, s[Len(s)])

\* Array.prototype.includes
Includes(s, x) == \E i \in 1..Len(s) : s[i] = x

(***************************************************************************)
(* The prerequisite graph and getLearningOrder.                            *)
(***************************************************************************)
PREREQUISITES ==
    [frontend |-> PREREQUISITES_frontend,
     backend |-> PREREQUISITES_backend,
     fullstack |-> PREREQUISITES_fullstack]

Tracks == {"frontend", "backend", "fullstack"}

\* JavaScript undefined: PREREQUISITES[track] of a track that is no key.
Undefined == [undefined |-> TRUE]

\* trackPrereqs[skill] || []
PrereqsOf(graph, skill) ==
    IF skill \in DOMAIN graph THEN graph[skill] ELSE <<>>

\* Mutant of allPrereqsMet: a prerequisite outside the input is not waived.
allPrereqsMet_strict(graph, skill, done, names) ==
    LET prereqs == PrereqsOf(graph, skill)
    IN  \A i \in 1..Len(prereqs) : prereqs[i] \in done

\* Mutant of allPrereqsMet: prerequisites are not looked at.
allPrereqsMet_ignored(graph, skill, done, names) == TRUE

\* prereqs.every(prereq => processed.has(prereq) || !skillNames.includes(prereq))
allPrereqsMet(graph, skill, done, names) ==
    LET prereqs == PrereqsOf(graph, skill)
    IN  \A i \in 1..Len(prereqs) :
          prereqs[i] \in done \/ ~Includes(names, prereqs[i])

\* for (const skill of remaining) { ... }: todo is what the iteration has yet
\* to visit, st the locals ordered, processed, remaining, addedThisRound.
RECURSIVE ForOfRemaining(_, _, _, _)
ForOfRemaining(todo, st, graph, names) ==
    IF todo = <<>> THEN st
    ELSE LET skill == Head(todo)
             st2 == IF allPrereqsMet(graph, skill, st.processed, names)
                    THEN [ordered |-> Append(st.ordered, skill),
                          processed |-> st.processed \cup {skill},
                          remaining |-> SelectSeq(st.remaining,
                                                  LAMBDA s : s # skill),
                          addedThisRound |-> TRUE]
                    ELSE st
         IN  ForOfRemaining(Tail(todo), st2, graph, names)

\* Mutant of Fallback: the remaining skills are flushed last first.
Fallback_reversed(st) ==
    IF ~st.addedThisRound /\ Len(st.remaining) > 0
    THEN [ordered |-> st.ordered
                         \o [i \in 1..Len(st.remaining) |->
                                st.remaining[Len(st.remaining) + 1 - i]],
          stop |-> TRUE]
    ELSE [ordered |-> st.ordered, stop |-> FALSE]

\* Mutant of Fallback: the remaining skills are flushed in the order of the
\* Set instead of sorted.
Fallback_unsorted(st) ==
    IF ~st.addedThisRound /\ Len(st.remaining) > 0
    THEN [ordered |-> st.ordered \o st.remaining, stop |-> TRUE]
    ELSE [ordered |-> st.ordered, stop |-> FALSE]

\* Mutant of Fallback: no flush when a pass places nothing.
Fallback_none(st) == [ordered |-> st.ordered, stop |-> FALSE]

\* if (!addedThisRound && remaining.size > 0) { ordered.push(...sorted); break }
Fallback(st) ==
    IF ~st.addedThisRound /\ Len(st.remaining) > 0
    THEN [ordered |-> st.ordered \o SortStrings(Range(st.remaining)),
          stop |-> TRUE]
    ELSE [ordered |-> st.ordered, stop |-> FALSE]

\* One iteration of the while loop: the for-of pass and the fallback.
WhileBody(graph, names, ord, rem, done) ==
    LET st == ForOfRemaining(rem,
                             [ordered |-> ord, processed |-> done,
                              remaining |-> rem, addedThisRound |-> FALSE],
                             graph, names)
        fb == Fallback(st)
    IN  [ordered |-> fb.ordered, processed |-> st.processed,
         remaining |-> st.remaining, stop |-> fb.stop]

\* while (remaining.size > 0 && iterations < maxIterations) { ... } run to
\* its end: the list in ordered when the loop is left.
RECURSIVE WhileLoop(_, _, _, _, _, _)
WhileLoop(graph, names, ord, rem, done, iter) ==
    IF ~(Len(rem) > 0 /\ iter < Len(names) * 2) THEN ord
    ELSE LET st == WhileBody(graph, names, ord, rem, done)
         IN  IF st.stop THEN st.ordered
             ELSE WhileLoop(graph, names, st.ordered, st.remaining,
                            st.processed, iter + 1)

\* getLearningOrder as a function of the track's graph and the input: what
\* the steps Enter, Pass and Return compute one after the other.
getLearningOrder(graph, names) ==
    IF graph = Undefined THEN names
    ELSE WhileLoop(graph, names, <<>>, NewSet(names), {}, 0)

\* let maxIterations = skillNames.length * 2
maxIterations == Len(skillNames) * 2

\* The sequences without repetition of at most n elements of S.
DistinctSeqs(S, n) ==
    {s \in UNION {[1..k -> S] : k \in 0..n} :
        \A i, j \in 1..Len(s) : i # j => s[i] # s[j]}

\* The skills of a track graph: its keys and the prerequisites it names.
SkillsOf(graph) ==
    DOMAIN graph \cup UNION {Range(graph[k]) : k \in DOMAIN graph}

\* Per track, the skills from which the longer inputs are drawn.
OrderPool ==
    [frontend |-> {"React", "JavaScript", "HTML", "CSS", "ES6+", "Fetch API",
                   "Progressive Web Apps", "Service Workers"},
     backend |-> {"JavaScript", "Node.js", "Express.js", "REST APIs", "JSON",
                  "HTTP/HTTPS", "API Testing", "Unit Testing"},
     fullstack |-> {"HTML", "CSS", "JavaScript", "React", "REST APIs", "JSON",
                    "Express.js", "Error Handling"}]

\* The inputs explored for a track: every list of at most two of its skills,
\* and the lists of at most MaxInput skills of its pool.
TrackInputs(t) ==
    DistinctSeqs(OrderPool[t], MaxInput)
        \cup {s \in UNION {[1..k -> SkillsOf(PREREQUISITES[t])] : k \in 1..2} :
                 \A i, j \in 1..Len(s) : i # j => s[i] # s[j]}

\* A track that is no key of PREREQUISITES.
UnknownTrack == "mobile"

\* Graphs over the skills A, B, C whose prerequisites may form cycles, name
\* the skill itself or name X, which is no key of the graph.
CycleSkills == <<"A", "B", "C", "X">>

PrereqLists ==
    {SelectSeq(CycleSkills, LAMBDA n : n \in S) :
        S \in {T \in SUBSET Range(CycleSkills) : Cardinality(T) <= MaxPrereqs}}

CycleGraphs == [{"A", "B", "C"} -> PrereqLists]

\* What getLearningOrder leaves alone.
notOrder == <<cacheVars, gapVars, evidenceVars, otherVars>>

\* The locals of getLearningOrder before the function body has run.
OrderLocalsInit ==
    /\ ordered = <<>>
    /\ remaining = <<>>
    /\ processed = {}
    /\ iterations = 0
    /\ olpc = "called"
    /\ exit = "none"
    /\ result = <<>>

\* getLearningOrder(track, skillNames) is called on a shipped or unknown track.
OrderInit ==
    /\ track \in Tracks \cup {UnknownTrack}
    /\ trackPrereqs = IF track \in DOMAIN PREREQUISITES
                      THEN PREREQUISITES[track] ELSE Undefined
    /\ skillNames \in IF track \in Tracks THEN TrackInputs(track)
                      ELSE DistinctSeqs(OrderPool["frontend"], 1)
    /\ OrderLocalsInit

\* getLearningOrder is called on a track whose graph is any of CycleGraphs.
CycleInit ==
    /\ track \in {"custom", UnknownTrack}
    /\ trackPrereqs \in IF track = "custom" THEN CycleGraphs ELSE {Undefined}
    /\ skillNames \in DistinctSeqs(Range(CycleSkills),
                                   IF track = "custom" THEN MaxCycleInput ELSE 1)
    /\ OrderLocalsInit

\* Function entry: an unknown track returns the input, otherwise the locals
\* are set up.
Enter ==
    /\ olpc = "called"
    /\ IF trackPrereqs = Undefined
       THEN /\ result' = skillNames
            /\ olpc' = "returned"
            /\ exit' = "noGraph"
            /\ UNCHANGED <<ordered, remaining, processed, iterations>>
       ELSE /\ ordered' = <<>>
            /\ remaining' = NewSet(skillNames)
            /\ processed' = {}
            /\ iterations' = 0
            /\ olpc' = "loop"
            /\ UNCHANGED <<exit, result>>
    /\ UNCHANGED <<notOrder, track, trackPrereqs, skillNames>>

\* One pass of the while loop; the fallback's break returns ordered.
Pass ==
    LET st == WhileBody(trackPrereqs, skillNames, ordered, remaining, processed)
    IN  /\ olpc = "loop"
        /\ Len(remaining) > 0 /\ iterations < maxIterations
        /\ iterations' = iterations + 1
        /\ ordered' = st.ordered
        /\ processed' = st.processed
        /\ remaining' = st.remaining
        /\ IF st.stop
           THEN olpc' = "returned" /\ exit' = "break" /\ result' = st.ordered
           ELSE UNCHANGED <<olpc, exit, result>>
        /\ UNCHANGED <<notOrder, track, trackPrereqs, skillNames>>

\* The loop condition is false: return ordered.
Return ==
    /\ olpc = "loop"
    /\ ~(Len(remaining) > 0 /\ iterations < maxIterations)
    /\ result' = ordered
    /\ olpc' = "returned"
    /\ exit' = "loopEnd"
    /\ UNCHANGED <<notOrder, track, trackPrereqs, skillNames, ordered, remaining,
                   processed, iterations>>

OrderNext == Enter \/ Pass \/ Return

(***************************************************************************)
(* The roadmap catalog and findGaps.                                       *)
(***************************************************************************)
\* ROADMAPS as shipped.
ROADMAPS ==
    [frontend |-> [coreSkills |-> ROADMAPS_frontend],
     backend |-> [coreSkills |-> ROADMAPS_backend],
     fullstack |-> [coreSkills |-> ROADMAPS_fullstack]]

\* The lengths of the lists of ROADMAPS as shipped.
ShippedLengths ==
    [t \in DOMAIN ROADMAPS |-> Len(ROADMAPS[t].coreSkills)]

\* ROADMAPS as configured: every catalog explored is the shipped one with
\* lists cut short, so the lengths in roadmaps determine it.
Configured ==
    [t \in DOMAIN roadmaps |->
        [coreSkills |-> SubSeq(ROADMAPS[t].coreSkills, 1, roadmaps[t])]]

\* Mutant of toLowerCase: the string is left as it is.
toLowerCase_asIs(s) == CodeUnits[s]

\* The lower-cased code units u: the letters A..Z (65..90) become a..z (32
\* higher), every other code unit stays.
LowerCaseUnits(u) ==
    [i \in 1..Len(u) |-> IF u[i] \in 65..90 THEN u[i] + 32 ELSE u[i]]

\* The lower-cased form of every string of the model.
LowerCased ==
    LET Lower(units) == [s \in DOMAIN units |-> LowerCaseUnits(units[s])]
    IN  Lower(CodeUnits)

\* String.prototype.toLowerCase: the code units of the lower-cased string.
toLowerCase(s) == LowerCased[s]

\* getCoreSkills(track).map(s => s.name), for a track of the catalog
coreSkillNamesOf(t) ==
    [i \in 1..roadmaps[t] |-> Configured[t].coreSkills[i].name]

\* getSkillWeight: the weight of the first core skill of that name, else 0
getSkillWeight(t, skillName) ==
    LET coreSkills == Configured[t].coreSkills
        found == {i \in 1..Len(coreSkills) :
                     toLowerCase(coreSkills[i].name) = toLowerCase(skillName)}
    IN  IF found = {} THEN 0
        ELSE coreSkills[CHOOSE i \in found : \A j \in found : i <= j].weight

\* ValidationService.findGaps
findGaps(t, names, coreSkillNames) ==
    LET userSkillSet == {toLowerCase(names[i]) : i \in 1..Len(names)}
        missing == SelectSeq(coreSkillNames,
                             LAMBDA coreSkill :
                                 toLowerCase(coreSkill) \notin userSkillSet)
    IN  [i \in 1..Len(missing) |->
            [skill |-> missing[i], weight |-> getSkillWeight(t, missing[i])]]

\* The names a user may give: catalog names in other spellings of case,
\* names that are core in some tracks only, a name outside the catalog.
UserPool ==
    {"HTML", "html", "REACT", "javascript", "es6+", "node.js", "sql", "Rust"}

\* What findGaps leaves alone.
notGaps == <<cacheVars, orderVars, evidenceVars, otherVars>>

\* validateSkills(track, userSkills) is called.
GapInit ==
    /\ track \in Tracks \cup {UnknownTrack}
    /\ userSkillNames \in UNION {[1..n -> UserPool] : n \in 0..MaxUser}
    /\ gaps = <<>>
    /\ vpc = "called"

\* validateSkills up to findGaps: getCoreSkills throws on a track that is not
\* in the catalog, otherwise the gaps are computed.
FindGaps ==
    /\ vpc = "called"
    /\ IF track \in DOMAIN roadmaps
       THEN /\ gaps' = findGaps(track, userSkillNames, coreSkillNamesOf(track))
            /\ vpc' = "gaps"
       ELSE /\ gaps' = gaps
            /\ vpc' = "threw"
    /\ UNCHANGED <<notGaps, track, userSkillNames>>

GapNext == FindGaps

(***************************************************************************)
(* getSuggestedNext.                                                       *)
(***************************************************************************)
\* getPrerequisites(track, skillName): [] for a track without a graph and
\* for a skill that is no key of the graph.
getPrerequisites(t, skillName) ==
    LET Of(table) ==
            IF t \in DOMAIN table THEN PrereqsOf(table[t], skillName)
            ELSE <<>>
    IN  Of(PREREQUISITES)

\* Array.prototype.slice(0, end) for end >= 0.
Slice(list, end) ==
    SubSeq(list, 1, IF end < Len(list) THEN end ELSE Len(list))

\* Mutant of Suggestion: a skill is suggested whatever it is missing.
Suggestion_anyMissing(gapSkill, prereqs, missingPrereqs, units) ==
    IF missingPrereqs = <<>>
    THEN <<[skill |-> gapSkill, reason |-> units["Prerequisites met"],
            prereqs |-> prereqs]>>
    ELSE <<[skill |-> gapSkill,
            reason |-> units["Learn "] \o units[missingPrereqs[1]]
                          \o units[" first"],
            prereqs |-> prereqs, missingPrereqs |-> missingPrereqs]>>

\* The body of the loop of getSuggestedNext: what is pushed for gapSkill.
Suggestion(gapSkill, prereqs, missingPrereqs, units) ==
    IF missingPrereqs = <<>>
    THEN <<[skill |-> gapSkill, reason |-> units["Prerequisites met"],
            prereqs |-> prereqs]>>
    ELSE IF Len(missingPrereqs) = 1
    THEN <<[skill |-> gapSkill,
            reason |-> units["Learn "] \o units[missingPrereqs[1]]
                          \o units[" first"],
            prereqs |-> prereqs, missingPrereqs |-> missingPrereqs]>>
    ELSE <<>>

\* for (const gapSkill of gapSkills) { ... }: the suggestions pushed.
RECURSIVE ForOfGapSkills(_, _, _, _)
ForOfGapSkills(t, todo, learnedSet, units) ==
    IF todo = <<>> THEN <<>>
    ELSE LET prereqs == getPrerequisites(t, Head(todo))
             missingPrereqs ==
                 SelectSeq(prereqs,
                           LAMBDA prereq :
                               LowerCaseUnits(units[prereq]) \notin learnedSet)
         IN  Suggestion(Head(todo), prereqs, missingPrereqs, units)
                 \o ForOfGapSkills(t, Tail(todo), learnedSet, units)

\* getSuggestedNext(track, currentSkills, gapSkills, count); prereqs.every(...)
\* holds exactly if the filter for missingPrereqs leaves nothing.
getSuggestedNext(t, current, gapList, cnt) ==
    LET Run(units) ==
            Slice(ForOfGapSkills(t, gapList,
                                 {LowerCaseUnits(units[current[i]]) :
                                     i \in 1..Len(current)},
                                 units),
                  cnt)
    IN  Run(CodeUnits)

\* Per track, the gap skills explored: skills with no, one, two and four
\* prerequisites.
SuggestPool ==
    [frontend |-> {"HTML", "CSS", "React", "Responsive Design", "Fetch API"},
     backend |-> {"JavaScript", "Node.js", "Express.js", "REST APIs",
                  "API Testing"},
     fullstack |-> {"HTML", "JavaScript", "React", "REST APIs", "Express.js"}]

\* The skills a user may have, some in another spelling of case.
SuggestUsers == <<"html", "javascript", "es6+", "node.js", "CSS">>

CurrentLists ==
    {SelectSeq(SuggestUsers, LAMBDA name : name \in S) :
        S \in SUBSET Range(SuggestUsers)}

\* What getSuggestedNext leaves alone.
notSuggest == <<cacheVars, orderVars, gapVars, evidenceVars, keyVars, sortVars,
               trendVars, roadmaps, validateVars, rateVars>>

\* getSuggestedNext(track, currentSkills, gapSkills, count) is called.
SuggestInit ==
    /\ track \in Tracks \cup {UnknownTrack}
    /\ currentSkills \in CurrentLists
    /\ gapSkills \in DistinctSeqs(IF track \in Tracks THEN SuggestPool[track]
                                  ELSE SuggestPool["frontend"],
                                  MaxSuggestGaps)
    /\ sliceCount \in 0..MaxCount
    /\ suggestions = <<>>
    /\ npc = "called"

\* The call returns.
SuggestNext ==
    /\ npc = "called"
    /\ suggestions' = getSuggestedNext(track, currentSkills, gapSkills,
                                       sliceCount)
    /\ npc' = "returned"
    /\ UNCHANGED <<notSuggest, track, currentSkills, gapSkills, sliceCount>>

(***************************************************************************)
(* The demand providers (GitHubService, StackOverflowService).             *)
(***************************************************************************)
\* String.prototype.replace(/[...]/g, repl) on code units: every code unit
\* of targets becomes repl.
RECURSIVE ReplaceAll(_, _, _)
ReplaceAll(u, targets, repl) ==
    IF u = <<>> THEN <<>>
    ELSE (IF Head(u) \in targets THEN repl ELSE <<Head(u)>>)
             \o ReplaceAll(Tail(u), targets, repl)

\* String.prototype.replace(/\s+/g, repl) on code units: every run of white
\* space becomes repl.
RECURSIVE ReplaceRuns(_, _, _)
ReplaceRuns(u, targets, repl) ==
    IF u = <<>> THEN <<>>
    ELSE IF Head(u) \in targets
         THEN (IF Len(u) > 1 /\ u[2] \in targets THEN <<>> ELSE repl)
                  \o ReplaceRuns(Tail(u), targets, repl)
         ELSE <<Head(u)>> \o ReplaceRuns(Tail(u), targets, repl)

\* White space (tab, line feed, vertical tab, form feed, carriage return,
\* space) as matched by \s in the names explored.
WhiteSpace == {9, 10, 11, 12, 13, 32}

\* GitHubService.buildSkillQuery, as code units: the normalised search term
\* ("/" and "\" become "-", "+" becomes "plus", "." is dropped), the track
\* context and, when both dates are given (<<>> stands for null), the date
\* range.
buildSkillQuery(skillName, t, startDate, endDate) ==
    LET Build(units, lowered) ==
            LET searchTerm ==
                    ReplaceAll(ReplaceAll(ReplaceAll(lowered, {47, 92},
                                                     <<45>>),
                                          {43}, units["plus"]),
                               {46}, <<>>)
                query == searchTerm \o units[" in:readme,description"]
                context ==
                    IF t = "frontend"
                    THEN units[" frontend OR client-side OR browser"]
                    ELSE IF t = "backend"
                         THEN units[" backend OR server-side OR api"]
                         ELSE IF t = "fullstack"
                              THEN units[" fullstack OR full-stack OR web-development"]
                              ELSE <<>>
                range == IF startDate # <<>> /\ endDate # <<>>
                         THEN units[" created:"] \o startDate \o units[".."]
                                  \o endDate
                         ELSE <<>>
            IN  query \o context \o range
    IN  Build(CodeUnits, toLowerCase(skillName))

\* The tagMap of StackOverflowService.buildSkillTags, keys and tags as
\* strings.
tagMap ==
    ("javascript" :> <<"javascript", "js">>) @@
    ("typescript" :> <<"typescript", "ts">>) @@
    ("nodejs" :> <<"node.js", "nodejs">>) @@
    ("node.js" :> <<"node.js", "nodejs">>) @@
    ("reactjs" :> <<"reactjs", "react">>) @@
    ("react" :> <<"reactjs", "react">>) @@
    ("expressjs" :> <<"express", "expressjs">>) @@
    ("express.js" :> <<"express", "expressjs">>) @@
    ("mongodb" :> <<"mongodb", "mongo">>) @@
    ("postgresql" :> <<"postgresql", "postgres">>) @@
    ("css3" :> <<"css", "css3">>) @@
    ("html5" :> <<"html", "html5">>) @@
    ("es6" :> <<"ecmascript-6", "es6">>) @@
    ("async-await" :> <<"async-await", "javascript">>) @@
    ("jwt" :> <<"jwt", "json-web-token">>) @@
    ("oauth" :> <<"oauth", "oauth-2.0">>)

\* StackOverflowService.buildSkillTags: the tags, each as its code units.
buildSkillTags(skillName, t) ==
    LET Build(units, lowered) ==
            LET baseTag ==
                    ReplaceAll(ReplaceAll(ReplaceAll(
                        ReplaceRuns(lowered, WhiteSpace, <<45>>),
                        {47}, <<45>>), {46}, <<>>), {43}, units["plus"])
                keys == {key \in DOMAIN tagMap : units[key] = baseTag}
                Mapped(tags) == [i \in 1..Len(tags) |-> units[tags[i]]]
            IN  IF keys # {}
                THEN Mapped(tagMap[CHOOSE key \in keys : TRUE])
                ELSE <<baseTag>>
    IN  Build(CodeUnits, toLowerCase(skillName))

\* Array.prototype.join on strings given as code units.
RECURSIVE Join(_, _)
Join(parts, separator) ==
    IF parts = <<>> THEN <<>>
    ELSE IF Len(parts) = 1 THEN parts[1]
         ELSE parts[1] \o separator \o Join(Tail(parts), separator)

\* String(n) for a non-negative integer n: its decimal digits.
RECURSIVE NumberToString(_)
NumberToString(n) ==
    IF n < 10 THEN <<48 + n>>
    ELSE NumberToString(n \div 10) \o <<48 + (n % 10)>>

\* A params object is the sequence of its own properties <<name, value>> in
\* insertion order, the names distinct, each value as the code units of its
\* string conversion. Object.keys(params):
ObjectKeys(params) == [i \in 1..Len(params) |-> params[i][1]]

\* params[key]
Property(params, key) ==
    params[CHOOSE i \in 1..Len(params) : params[i][1] = key][2]

\* Mutant of generateKey: the property names are not sorted.
generateKey_unsorted(prefix, params) ==
    LET Build(units, keys) ==
            units[prefix] \o <<58>>
                \o Join([i \in 1..Len(keys) |->
                            units[keys[i]] \o <<58>>
                                \o Property(params, keys[i])],
                        <<124>>)
    IN  Build(CodeUnits, ObjectKeys(params))

\* cacheService.generateKey(prefix, params), as code units:
\* `${prefix}:${sortedParams}` where sortedParams joins `${key}:${params[key]}`
\* of the sorted property names with "|".
generateKey(prefix, params) ==
    LET Build(units, keys) ==
            units[prefix] \o <<58>>
                \o Join([i \in 1..Len(keys) |->
                            units[keys[i]] \o <<58>>
                                \o Property(params, keys[i])],
                        <<124>>)
    IN  Build(CodeUnits, SortStrings(Range(ObjectKeys(params))))

Providers == <<"github", "stackoverflow">>

\* The cache key of getSkillDemand.
DemandKey(provider, skillName, t) ==
    LET Params(units) ==
            <<<<"skill", units[skillName]>>, <<"track", units[t]>>>>
    IN  generateKey(IF provider = "github" THEN "github:demand"
                    ELSE "stackoverflow:demand",
                    Params(CodeUnits))

\* The cache key of searchRepositories(query, {perPage: 1}).
RepositoriesKey(query) ==
    LET Params(units) ==
            <<<<"query", query>>, <<"sort", units["stars"]>>,
              <<"order", units["desc"]>>, <<"perPage", NumberToString(1)>>>>
    IN  generateKey("github:search", Params(CodeUnits))

\* The cache key of searchQuestions(tags, {fromDate, toDate, pageSize: 1}):
\* fromDate || 'all', toDate || 'all' (0 stands for null: both are falsy).
QuestionsKey(tags, fromDate, toDate) ==
    LET Params(units) ==
            <<<<"tags", Join(tags, <<44>>)>>,
              <<"fromDate", IF fromDate = 0 THEN units["all"]
                            ELSE NumberToString(fromDate)>>,
              <<"toDate", IF toDate = 0 THEN units["all"]
                          ELSE NumberToString(toDate)>>,
              <<"sort", units["activity"]>>,
              <<"pageSize", NumberToString(1)>>>>
    IN  generateKey("stackoverflow:search", Params(CodeUnits))

\* The cache key of searchRepositories / searchQuestions as getSkillDemand
\* calls them at time clock. Stack Overflow's fromDate is the Unix time six
\* months before the call, here the clock counted from 1: it is never 0 and
\* changes whenever the clock does.
SearchKey(provider, skillName, t, clock) ==
    IF provider = "github"
    THEN RepositoriesKey(buildSkillQuery(skillName, t, <<>>, <<>>))
    ELSE QuestionsKey(buildSkillTags(skillName, t), clock + 1, 0)

(***************************************************************************)
(* generateKey on its own.                                                 *)
(***************************************************************************)
\* The property names and values generateKey is tried on ("B" sorts before
\* "a": the sort is by code unit), and the largest number of properties.
KeyFields == {"a", "b", "B"}

KeyValues == {"1", "2"}

KeyPrefixes == {"github:demand", "stackoverflow:search"}

\* The params objects: at most MaxFields properties with distinct names.
ParamObjects ==
    UNION {{[i \in 1..Len(names) |-> <<names[i], CodeUnits[values[i]]>>] :
               values \in [1..Len(names) -> KeyValues]} :
              names \in DistinctSeqs(KeyFields, MaxFields)}

\* obj has the properties of params, in some insertion order.
SameProperties(obj, p) == Len(obj) = Len(p) /\ Range(obj) = Range(p)

notKeys == <<cacheVars, track, orderVars, gapVars, evidenceVars, sortVars,
            trendVars, roadmaps, validateVars, moreVars>>

\* generateKey is about to be called on two objects with the same properties.
KeyInit ==
    /\ keyPrefix \in KeyPrefixes
    /\ keyParams \in ParamObjects
    /\ reordered \in {obj \in ParamObjects : SameProperties(obj, keyParams)}
    /\ generated = <<>>
    /\ kpc = "called"

\* Values a caller may supply: strings that hold the separators "|" and ":"
\* as well as plain ones.
CallerValues == {"1", "2", "1|b:2"}

\* The params objects of at most two of the properties a and b with
\* caller-supplied values.
CallerObjects ==
    UNION {{[i \in 1..Len(names) |-> <<names[i], CodeUnits[values[i]]>>] :
               values \in [1..Len(names) -> CallerValues]} :
              names \in DistinctSeqs({"a", "b"}, 2)}

\* generateKey is about to be called on any two objects.
CallerInit ==
    /\ keyPrefix \in KeyPrefixes
    /\ keyParams \in CallerObjects
    /\ reordered \in CallerObjects
    /\ generated = <<>>
    /\ kpc = "called"

\* The two calls.
GenerateKeys ==
    /\ kpc = "called"
    /\ generated' = <<generateKey(keyPrefix, keyParams),
                      generateKey(keyPrefix, reordered)>>
    /\ kpc' = "returned"
    /\ UNCHANGED <<notKeys, keyPrefix, keyParams, reordered>>

KeyNext == GenerateKeys

\* The counts a provider may report and the failures of a request.
Counts == {0, 600, 1999}

\* What getSkillDemand returns when its lookup fails: no data field.
DemandFailure(skillName, t, message) ==
    [skill |-> skillName, track |-> t, count |-> 0, error |-> message]

\* The synchronous part of getSkillDemand: getOrSet of the demand key and, on
\* a miss, the producer up to getOrSet of the search key; a second miss
\* leaves the HTTP request in flight.
StartDemand(c, provider, skillName, t, clock) ==
    LET r1 == get(c, DemandKey(provider, skillName, t), clock)
        r2 == get(r1.cache, SearchKey(provider, skillName, t, clock), clock)
    IN  IF r1.ret # Null
        THEN [cache |-> r1.cache,
              lookup |-> [pc |-> "done",
                          result |-> [data |-> r1.ret, fromCache |-> TRUE]]]
        ELSE IF r2.ret # Null
             THEN [cache |-> r2.cache,
                   lookup |-> [pc |-> "searched",
                               result |-> [data |-> r2.ret,
                                           fromCache |-> TRUE]]]
             ELSE [cache |-> r2.cache,
                   lookup |-> [pc |-> "http",
                               searchKey |-> SearchKey(provider, skillName,
                                                       t, clock),
                               result |-> Null]]

\* The lookups of addEvidenceToGaps in the order they are started: per gap,
\* GitHub then Stack Overflow.
LookupIds(gs) ==
    [n \in 1..(2 * Len(gs)) |-> <<(n + 1) \div 2, 2 - (n % 2)>>]

\* The synchronous part of every lookup, in order.
RECURSIVE StartAll(_, _, _, _, _, _)
StartAll(ids, gs, t, clock, c, started) ==
    IF ids = <<>> THEN [cache |-> c, lookups |-> started]
    ELSE LET id == Head(ids)
             s == StartDemand(c, Providers[id[2]], gs[id[1]].skill, t, clock)
         IN  StartAll(Tail(ids), gs, t, clock, s.cache,
                      started @@ (id :> s.lookup))

\* The producer of getSkillDemand after its search returned total: the demand
\* record is stored under the demand key and returned.
FinishDemand(c, provider, skillName, t, clock, total) ==
    LET demand == [skill |-> skillName, track |-> t, count |-> total]
    IN  [cache |-> set(c, DemandKey(provider, skillName, t), demand, <<>>,
                       clock),
         lookup |-> [pc |-> "done",
                     result |-> [data |-> demand, fromCache |-> FALSE]]]

\* searchResult.data.totalCount (GitHub), searchResult.data.total (Stack
\* Overflow)
TotalOf(provider, searchResult) ==
    IF provider = "github" THEN searchResult.data.totalCount
    ELSE searchResult.data.total

\* The continuations of the lookups whose search was served from the cache.
RECURSIVE ContinueAll(_, _, _, _, _, _)
ContinueAll(ids, gs, t, clock, c, ls) ==
    IF ids = <<>> THEN [cache |-> c, lookups |-> ls]
    ELSE LET id == Head(ids)
             f == FinishDemand(c, Providers[id[2]], gs[id[1]].skill, t, clock,
                               TotalOf(Providers[id[2]], ls[id].result))
         IN  IF ls[id].pc = "searched"
             THEN ContinueAll(Tail(ids), gs, t, clock, f.cache,
                              [ls EXCEPT ![id] = f.lookup])
             ELSE ContinueAll(Tail(ids), gs, t, clock, c, ls)

(***************************************************************************)
(* addEvidenceToGaps.                                                      *)
(***************************************************************************)
DEMAND_THRESHOLDS_HIGH == 1000

DEMAND_THRESHOLDS_MEDIUM == 300

\* Mutant of categorizeDemand: the thresholds themselves are excluded.
categorizeDemand_exclusive(twiceScore) ==
    IF twiceScore > 2 * DEMAND_THRESHOLDS_HIGH THEN "high"
    ELSE IF twiceScore > 2 * DEMAND_THRESHOLDS_MEDIUM THEN "medium"
    ELSE "low"

\* categorizeDemand, on twice the combined score
categorizeDemand(twiceScore) ==
    IF twiceScore >= 2 * DEMAND_THRESHOLDS_HIGH THEN "high"
    ELSE IF twiceScore >= 2 * DEMAND_THRESHOLDS_MEDIUM THEN "medium"
    ELSE "low"

\* data.data?.count || 0
CountOf(data) ==
    IF "data" \in DOMAIN data THEN data.data.count ELSE 0

\* data.data?.error || null
ErrorOf(data) ==
    IF "data" \in DOMAIN data /\ "error" \in DOMAIN data.data
    THEN data.data.error ELSE Null

\* The gap with its evidence, from the results of its two lookups: the
\* properties of the gap (skill and weight; section too for the gaps of
\* validateFullstack) and evidence. The combined score
\* githubCount + soCount * 0.5 is kept as twice its value, so that it stays an
\* integer. (The timestamp is left out.)
WithEvidence(gap, githubData, soData) ==
    LET githubCount == CountOf(githubData)
        soCount == CountOf(soData)
        twiceScore == 2 * githubCount + soCount
        evidence ==
            [github |-> [count |-> githubCount, error |-> ErrorOf(githubData)],
             stackoverflow |-> [count |-> soCount, error |-> ErrorOf(soData)],
             twiceCombinedScore |-> twiceScore,
             demandCategory |-> categorizeDemand(twiceScore)]
    IN  IF "section" \in DOMAIN gap
        THEN [skill |-> gap.skill, weight |-> gap.weight,
              section |-> gap.section, evidence |-> evidence]
        ELSE [skill |-> gap.skill, weight |-> gap.weight,
              evidence |-> evidence]

\* The gaps handed to addEvidenceToGaps on track t: at most MaxGaps of these
\* core skills, in catalog order with their catalog weight.
EvidencePool == {"HTML", "ES6+"}

EvidenceTracks == {"frontend", "fullstack"}

EvidenceGaps(t) ==
    LET shipped == ROADMAPS[t].coreSkills
        all == [i \in 1..Len(shipped) |->
                   [skill |-> shipped[i].name, weight |-> shipped[i].weight]]
    IN  {SelectSeq(all, LAMBDA g : g.skill \in S) :
            S \in {T \in SUBSET EvidencePool : Cardinality(T) <= MaxGaps}}

\* What addEvidenceToGaps leaves alone.
notEvidence == <<orderVars, userSkillNames, vpc, calls, last, lru, lastWrite,
                otherVars>>

\* addEvidenceToGaps(gaps, track) is about to be called on an empty cache.
EvidenceInit ==
    /\ track \in EvidenceTracks
    /\ gaps \in EvidenceGaps(track)
    /\ lookups = <<>>
    /\ gapsWithEvidence = <<>>
    /\ epc = "called"

\* The call: every lookup runs up to its first suspension, then the lookups
\* whose search was a cache hit complete.
AddEvidenceToGaps ==
    LET ids == LookupIds(gaps)
        s == StartAll(ids, gaps, track, now, cache, <<>>)
        k == ContinueAll(ids, gaps, track, now, s.cache, s.lookups)
    IN  /\ epc = "called"
        /\ cache' = k.cache
        /\ lookups' = k.lookups
        /\ epc' = "awaiting"
        /\ UNCHANGED <<notEvidence, track, gaps, gapsWithEvidence, maxSize,
                       defaultTTL, now>>

\* The provider answers the request of lookup id with total: the search
\* result is stored under the search key, the demand under the demand key.
Respond(id, total) ==
    LET provider == Providers[id[2]]
        skillName == gaps[id[1]].skill
        searched == set(cache, lookups[id].searchKey,
                        IF provider = "github" THEN [totalCount |-> total]
                        ELSE [total |-> total],
                        <<>>, now)
        f == FinishDemand(searched, provider, skillName, track, now, total)
    IN  /\ epc = "awaiting"
        /\ id \in DOMAIN lookups
        /\ lookups[id].pc = "http"
        /\ cache' = f.cache
        /\ lookups' = [lookups EXCEPT ![id] = f.lookup]
        /\ UNCHANGED <<notEvidence, track, gaps, gapsWithEvidence, epc,
                       maxSize, defaultTTL, now>>

\* The request of lookup id fails: the search and the producer throw, nothing
\* is stored, getSkillDemand catches and returns a failure record.
Fail(id) ==
    /\ epc = "awaiting"
    /\ id \in DOMAIN lookups
    /\ lookups[id].pc = "http"
    /\ lookups' = [lookups EXCEPT ![id] =
                      [pc |-> "done",
                       result |-> DemandFailure(gaps[id[1]].skill, track,
                                                "API error")]]
    /\ UNCHANGED <<notEvidence, track, gaps, gapsWithEvidence, epc, cache,
                   maxSize, defaultTTL, now>>

\* Mutant of ReturnEvidence: gaps whose two lookups failed are left out.
ReturnEvidence_dropsFailed ==
    /\ epc = "awaiting"
    /\ \A id \in DOMAIN lookups : lookups[id].pc = "done"
    /\ gapsWithEvidence' =
          LET all == [i \in 1..Len(gaps) |->
                         WithEvidence(gaps[i], lookups[<<i, 1>>].result,
                                      lookups[<<i, 2>>].result)]
          IN  SelectSeq(all, LAMBDA g : g.evidence.twiceCombinedScore > 0)
    /\ epc' = "returned"
    /\ UNCHANGED <<notEvidence, track, gaps, lookups, cache, maxSize,
                   defaultTTL, now>>

\* Every lookup has completed: each gap gets its evidence, the list is
\* returned.
ReturnEvidence ==
    /\ epc = "awaiting"
    /\ \A id \in DOMAIN lookups : lookups[id].pc = "done"
    /\ gapsWithEvidence' =
          [i \in 1..Len(gaps) |->
              WithEvidence(gaps[i], lookups[<<i, 1>>].result,
                           lookups[<<i, 2>>].result)]
    /\ epc' = "returned"
    /\ UNCHANGED <<notEvidence, track, gaps, lookups, cache, maxSize,
                   defaultTTL, now>>

\* The next validation request calls addEvidenceToGaps again.
NextRequest(t, gs) ==
    /\ epc = "returned"
    /\ track' = t
    /\ gaps' = gs
    /\ lookups' = <<>>
    /\ gapsWithEvidence' = <<>>
    /\ epc' = "called"
    /\ UNCHANGED <<notEvidence, cache, maxSize, defaultTTL, now>>

EvidenceNext ==
    \/ Tick
    \/ AddEvidenceToGaps
    \/ \E i \in 1..MaxGaps, p \in 1..2, total \in Counts :
          Respond(<<i, p>>, total)
    \/ \E i \in 1..MaxGaps, p \in 1..2 : Fail(<<i, p>>)
    \/ ReturnEvidence
    \/ \E t \in EvidenceTracks : \E gs \in EvidenceGaps(t) : NextRequest(t, gs)

(***************************************************************************)
(* sortGaps.                                                               *)
(***************************************************************************)
\* Array.prototype.sort(compare) on a copy of list: the sort is stable, so an
\* element comes after exactly those that compare before it and those that
\* compare equal to it and precede it in list.
StableSort(list, compare(_, _)) ==
    LET Before(j, i) ==
            \/ compare(list[j], list[i]) < 0
            \/ compare(list[j], list[i]) = 0 /\ j < i
        rank(i) == Cardinality({j \in 1..Len(list) : Before(j, i)}) + 1
    IN  [k \in 1..Len(list) |->
            list[CHOOSE i \in 1..Len(list) : rank(i) = k]]

\* (a, b) => b.weight - a.weight
CompareImpact(a, b) == b.weight - a.weight

\* (a, b) => b.evidence.combinedScore - a.evidence.combinedScore, on twice the
\* scores
CompareDemand(a, b) ==
    b.evidence.twiceCombinedScore - a.evidence.twiceCombinedScore

\* (a, b) => scoreB - scoreA with score = combinedScore / (weight + 1): for
\* weights of at least 0 the divisors are positive and the difference has the
\* sign of the cross product computed here.
CompareQuickWins(a, b) ==
    b.evidence.twiceCombinedScore * (a.weight + 1)
        - a.evidence.twiceCombinedScore * (b.weight + 1)

\* Mutant of sortGaps: impact sorts by ascending weight.
sortGaps_ascendingImpact(list, by) ==
    LET CompareAscending(a, b) == a.weight - b.weight
    IN  IF by = "impact" THEN StableSort(list, CompareAscending)
        ELSE IF by = "demand" THEN StableSort(list, CompareDemand)
        ELSE IF by = "learning_order" THEN list
        ELSE IF by = "quick_wins" THEN StableSort(list, CompareQuickWins)
        ELSE list

\* ValidationService.sortGaps(gaps, sortBy)
sortGaps(list, by) ==
    IF by = "impact" THEN StableSort(list, CompareImpact)
    ELSE IF by = "demand" THEN StableSort(list, CompareDemand)
    ELSE IF by = "learning_order" THEN list
    ELSE IF by = "quick_wins" THEN StableSort(list, CompareQuickWins)
    ELSE list

\* CONSTANTS.SORT_OPTIONS and a value outside them.
SORT_OPTIONS == {"impact", "demand", "learning_order", "quick_wins"}

SortArgs == SORT_OPTIONS \cup {"alphabetical"}

\* The lists sortGaps is tried on: at most MaxSortLen gaps with distinct
\* skills, weights 0 and 1 and evidence of combined score 0, 1 and 2.
SortWeights == {0, 1}

SortEvidence == {<<0, 0>>, <<1, 0>>, <<1, 2>>}

SortGapsOf(names) ==
    {[i \in 1..Len(names) |->
         WithEvidence([skill |-> names[i], weight |-> w[i]],
                      [data |-> [count |-> e[i][1]]],
                      [data |-> [count |-> e[i][2]]])] :
        w \in [1..Len(names) -> SortWeights],
        e \in [1..Len(names) -> SortEvidence]}

SortInputs ==
    UNION {SortGapsOf(names) :
              names \in DistinctSeqs(Range(CycleSkills), MaxSortLen)}

notSort == <<cacheVars, track, orderVars, gapVars, lookups, epc, keyVars,
            trendVars, roadmaps, validateVars, moreVars>>

\* sortGaps(gapsWithEvidence, sortBy) is about to be called.
SortInit ==
    /\ gapsWithEvidence \in SortInputs
    /\ sortBy \in SortArgs
    /\ sortedGaps = <<>>
    /\ spc = "called"

\* The call.
SortGaps ==
    /\ spc = "called"
    /\ sortedGaps' = sortGaps(gapsWithEvidence, sortBy)
    /\ spc' = "returned"
    /\ UNCHANGED <<notSort, gapsWithEvidence, sortBy>>

SortNext == SortGaps

(***************************************************************************)
(* getSkillDemandOverTime (GitHubService, StackOverflowService).           *)
(***************************************************************************)
DEMAND_WINDOW_MONTHS == 6

\* The number of days of month m (0..11) of year y.
DaysInMonth(y, m) ==
    IF m = 1
    THEN (IF (y % 4 = 0 /\ y % 100 # 0) \/ y % 400 = 0 THEN 29 ELSE 28)
    ELSE IF m \in {3, 5, 8, 10} THEN 30 ELSE 31

\* Date.prototype.setMonth(m) on the date d: the month may lie outside 0..11
\* (the year is adjusted) and a day past the end of the month runs over into
\* the next month.
setMonth(d, m) ==
    LET y2 == d.year + (m \div 12)
        m2 == m % 12
    IN  IF d.day <= DaysInMonth(y2, m2)
        THEN [year |-> y2, month |-> m2, day |-> d.day]
        ELSE [year |-> y2 + ((m2 + 1) \div 12), month |-> (m2 + 1) % 12,
              day |-> d.day - DaysInMonth(y2, m2)]

\* String(n).padStart(2, '0')
PadStart2(n) == IF n < 10 THEN <<48>> \o NumberToString(n) ELSE NumberToString(n)

\* The days from 1 January 1970 to the first day of month m of year y.
RECURSIVE DaysBeforeMonth(_, _)
DaysBeforeMonth(y, m) ==
    IF m = 0 THEN 0 ELSE DaysBeforeMonth(y, m - 1) + DaysInMonth(y, m - 1)

DaysBefore(y, m) ==
    365 * (y - 1970) + ((y - 1969) \div 4) - ((y - 1901) \div 100)
        + ((y - 1601) \div 400) + DaysBeforeMonth(y, m)

\* The month iteration i of the loop asks for: the date i months before
\* today, its year and its month number 1..12.
MonthOf(day, i) ==
    LET date == setMonth(day, day.month - i)
    IN  [year |-> date.year, month |-> date.month + 1]

\* The cache key of getSkillDemandOverTime.
TrendKey(provider, skillName, t) ==
    LET Params(units) ==
            <<<<"skill", units[skillName]>>, <<"track", units[t]>>,
              <<"months", NumberToString(DEMAND_WINDOW_MONTHS)>>>>
    IN  generateKey(IF provider = "github" THEN "github:demand-trend"
                    ELSE "stackoverflow:demand-trend",
                    Params(CodeUnits))

\* The cache key of the search of iteration i. GitHub: the query with the
\* range `${year}-${month}-01`..`${year}-${month}-${last day}`. Stack
\* Overflow: the Unix times of the first second and of 23:59:59 of the last
\* day of the month (the server's clock is taken to be UTC).
TrendSearchKey(provider, skillName, t, day, i) ==
    LET ym == MonthOf(day, i)
        stem == NumberToString(ym.year) \o <<45>> \o PadStart2(ym.month)
                    \o <<45>>
        days == DaysBefore(ym.year, ym.month - 1)
        lastDay == DaysInMonth(ym.year, ym.month - 1)
    IN  IF provider = "github"
        THEN RepositoriesKey(buildSkillQuery(skillName, t,
                                             stem \o PadStart2(1),
                                             stem \o PadStart2(lastDay)))
        ELSE QuestionsKey(buildSkillTags(skillName, t), days * 86400,
                          (days + lastDay) * 86400 - 1)

\* The entry of monthlyData for iteration i (the label is left out).
MonthEntry(day, i, count) ==
    [month |-> MonthOf(day, i), count |-> count]

MonthFailure(day, i) ==
    [month |-> MonthOf(day, i), count |-> 0, error |-> TRUE]

\* The producer from the top of iteration i up to its next suspension: after
\* the last iteration the trend is returned to getOrSet, which stores it;
\* otherwise the search of iteration i is a cache hit (the entry is
\* prepended and the delay begins) or leaves a request in flight.
Advance(c, provider, skillName, t, day, i, data, clock) ==
    LET freshData == [skill |-> skillName, track |-> t, monthlyData |-> data]
        r == get(c, TrendSearchKey(provider, skillName, t, day, i), clock)
    IN  IF i = DEMAND_WINDOW_MONTHS
        THEN [cache |-> set(c, TrendKey(provider, skillName, t), freshData,
                            <<>>, clock),
              pc |-> "returned", i |-> i, data |-> data,
              result |-> [data |-> freshData, fromCache |-> FALSE]]
        ELSE IF r.ret # Null
             THEN [cache |-> r.cache, pc |-> "delay", i |-> i,
                   data |-> <<MonthEntry(day, i, TotalOf(provider,
                                                          [data |-> r.ret]))>>
                               \o data,
                   result |-> Null]
             ELSE [cache |-> r.cache, pc |-> "http", i |-> i, data |-> data,
                   result |-> Null]

\* The counts a provider may report for a month.
TrendCounts == {600}

TrendPool == {"HTML"}

\* new Date(): a mid-month day and a 31st, from which setMonth runs over.
Dates == {[year |-> 2024, month |-> 0, day |-> 15],
          [year |-> 2024, month |-> 2, day |-> 31]}

notTrend == <<track, orderVars, gapVars, evidenceVars, keyVars, sortVars,
              calls, last, lru, lastWrite, maxSize, defaultTTL, roadmaps,
              validateVars, moreVars>>

\* getSkillDemandOverTime(skillName, track) is about to be called.
TrendInit ==
    /\ today \in Dates
    /\ trendProvider \in Range(Providers)
    /\ trendSkill \in TrendPool
    /\ monthIndex = 0
    /\ monthlyData = <<>>
    /\ trendResult = Null
    /\ tpc = "called"

\* What a step of the call leaves the call in.
TrendBecomes(a) ==
    /\ cache' = a.cache
    /\ tpc' = a.pc
    /\ monthIndex' = a.i
    /\ monthlyData' = a.data
    /\ trendResult' = a.result
    /\ UNCHANGED <<notTrend, now, today, trendProvider, trendSkill>>

\* The call: getOrSet of the trend key; a hit returns the stored trend, a
\* miss enters the producer.
GetSkillDemandOverTime ==
    LET r == get(cache, TrendKey(trendProvider, trendSkill, track), now)
    IN  /\ tpc = "called"
        /\ IF r.ret # Null
           THEN TrendBecomes([cache |-> r.cache, pc |-> "returned", i |-> 0,
                              data |-> <<>>,
                              result |-> [data |-> r.ret, fromCache |-> TRUE]])
           ELSE TrendBecomes(Advance(r.cache, trendProvider, trendSkill,
                                     track, today, 0, <<>>, now))

\* The provider answers the request of the current month with total: the
\* search result is stored, the month is prepended, the delay begins.
TrendRespond(total) ==
    /\ tpc = "http"
    /\ TrendBecomes(
          [cache |-> set(cache,
                         TrendSearchKey(trendProvider, trendSkill, track,
                                        today, monthIndex),
                         IF trendProvider = "github"
                         THEN [totalCount |-> total] ELSE [total |-> total],
                         <<>>, now),
           pc |-> "delay", i |-> monthIndex,
           data |-> <<MonthEntry(today, monthIndex, total)>> \o monthlyData,
           result |-> Null])

\* The request of the current month fails: the search throws, the loop's
\* catch prepends a zero month marked error and the loop goes on at once.
TrendFail ==
    /\ tpc = "http"
    /\ TrendBecomes(Advance(cache, trendProvider, trendSkill, track, today,
                            monthIndex + 1,
                            <<MonthFailure(today, monthIndex)>> \o monthlyData,
                            now))

\* The delay after a month is over: the loop goes on.
TrendResume ==
    /\ tpc = "delay"
    /\ TrendBecomes(Advance(cache, trendProvider, trendSkill, track, today,
                            monthIndex + 1, monthlyData, now))

\* The next request for a trend.
NextTrend(provider) ==
    /\ tpc = "returned"
    /\ trendProvider' = provider
    /\ monthIndex' = 0
    /\ monthlyData' = <<>>
    /\ trendResult' = Null
    /\ tpc' = "called"
    /\ UNCHANGED <<notTrend, cache, now, today, trendSkill>>

TrendNext ==
    \/ Tick
    \/ GetSkillDemandOverTime
    \/ \E total \in TrendCounts : TrendRespond(total)
    \/ TrendFail
    \/ TrendResume
    \/ \E provider \in Range(Providers) : NextTrend(provider)

(***************************************************************************)
(* validateSkills and validateFullstack.                                   *)
(***************************************************************************)
\* The property names a plain object inherits from Object.prototype.
ObjectPrototype ==
    {"constructor", "hasOwnProperty", "isPrototypeOf", "propertyIsEnumerable",
     "toLocaleString", "toString", "valueOf", "__proto__"}

\* The value of an inherited property: a function or an object, truthy and
\* without a coreSkills property.
Inherited == [inherited |-> TRUE]

\* obj[name] on a plain object: its own property, else the property it
\* inherits, else undefined.
Member(obj, name) ==
    IF name \in DOMAIN obj THEN obj[name]
    ELSE IF name \in ObjectPrototype THEN Inherited
    ELSE Undefined

\* getCoreSkills(track): throws when ROADMAPS[track] is falsy, otherwise
\* returns its coreSkills property, which is undefined when there is none.
getCoreSkills(t) ==
    LET roadmap == Member(Configured, t)
    IN  IF roadmap = Undefined THEN [kind |-> "threw"]
        ELSE IF "coreSkills" \in DOMAIN roadmap
             THEN [kind |-> "list", value |-> roadmap.coreSkills]
             ELSE [kind |-> "undefined"]

\* Number.prototype.toFixed(1) of tenths / 10 for tenths >= 0: the integer
\* part, ".", one digit.
toFixed1(tenths) ==
    NumberToString(tenths \div 10) \o <<46>> \o NumberToString(tenths % 10)

\* ((1 - gapCount / coreSkillCount) * 100).toFixed(1), as the code units of
\* the string. 0 / 0 is NaN and n / 0 is Infinity, which print as "NaN"
\* and "-Infinity". Otherwise toFixed rounds to the nearest tenth, a tie
\* upwards; the error of the double arithmetic is far below the distance of
\* any of these quotients to a tie.
coveragePercent(gapCount, coreSkillCount) ==
    IF coreSkillCount = 0
    THEN (IF gapCount = 0 THEN CodeUnits["NaN"] ELSE CodeUnits["-Infinity"])
    ELSE toFixed1((2000 * (coreSkillCount - gapCount) + coreSkillCount)
                      \div (2 * coreSkillCount))

\* The error a rejected call carries.
Rejected(message) == [error |-> message]

\* validateFullstack: the section a core skill is filed under.
sectionOf(coreSkill) ==
    IF coreSkill.section = "frontend" THEN "frontend"
    ELSE IF coreSkill.section = "backend" THEN "backend"
    ELSE "both"

\* validateFullstack: the gaps of one section, in catalog order.
SectionGaps(missing, section) ==
    LET filed == SelectSeq(missing,
                           LAMBDA coreSkill : sectionOf(coreSkill) = section)
    IN  [i \in 1..Len(filed) |->
            [skill |-> filed[i].name, weight |-> filed[i].weight,
             section |-> filed[i].section]]

\* Mutant of SectionWithEvidence: every gap is taken.
SectionWithEvidence_all(withEvidence, sectionGaps) == withEvidence

\* gapsWithEvidence.filter(g => sectionGaps.some(sg => sg.skill === g.skill))
SectionWithEvidence(withEvidence, sectionGaps) ==
    SelectSeq(withEvidence,
              LAMBDA g : \E i \in 1..Len(sectionGaps) :
                             sectionGaps[i].skill = g.skill)

\* The calls explored. The track is one of the catalog, a name that is no
\* property of ROADMAPS at all, or a name ROADMAPS inherits.
ValidateTracks == Tracks \cup {UnknownTrack, "constructor"}

\* The catalog with the list of track t cut to its first n skills.
Configure(t, n) == [ShippedLengths EXCEPT ![t] = n]

\* The catalogs explored for a call on track t: the shipped one and, for a
\* track of the catalog, the ones with at most MaxCore skills on that track.
Configs(t) ==
    {ShippedLengths}
        \cup (IF t \in Tracks THEN {Configure(t, n) : n \in 0..MaxCore}
              ELSE {})

\* The user names every core skill of the track except at most MaxGaps of
\* these.
ValidatePool == {"HTML", "Node.js", "Git", "GitHub"}

UserLists(t) ==
    LET coreSkills == getCoreSkills(t)
        names == IF coreSkills.kind = "list"
                 THEN [i \in 1..Len(coreSkills.value) |->
                          coreSkills.value[i].name]
                 ELSE <<>>
    IN  {SelectSeq(names, LAMBDA name : name \notin S) :
            S \in {T \in SUBSET ValidatePool : Cardinality(T) <= MaxGaps}}

\* The user skills of proficiency "strong", in the order of userSkills: none
\* of them or the first two.
StrongLists(names) ==
    {SubSeq(names, 1, n) : n \in {0, IF Len(names) < 2 THEN Len(names) ELSE 2}}

\* PREREQUISITES[track]
TrackGraph(t) ==
    LET Of(table) == IF t \in DOMAIN table THEN table[t] ELSE Undefined
    IN  Of(PREREQUISITES)

\* ValidationService.findKeepSharpSkills
findKeepSharpSkills(t, strong, coreSkillNames) ==
    LET coreSkillSet == {toLowerCase(coreSkillNames[i]) :
                            i \in 1..Len(coreSkillNames)}
        kept == SelectSeq(strong,
                          LAMBDA skill : toLowerCase(skill) \in coreSkillSet)
    IN  StableSort([i \in 1..Len(kept) |->
                       [skill |-> kept[i],
                        weight |-> getSkillWeight(t, kept[i])]],
                   CompareImpact)

\* The totals the providers answer with.
ValidateCounts == {600}

NoSections == [frontend |-> <<>>, backend |-> <<>>, both |-> <<>>]

\* What the start of a validation leaves alone.
notValidate == <<orderVars, userSkillNames, calls, last, lru, lastWrite,
                maxSize, defaultTTL, now, keyVars, sortVars, trendVars,
                roadmaps, method, track, gapsWithEvidence, strongSkills,
                moreVars>>

\* validateSkills(track, userSkills, {sortBy}) or
\* validateFullstack(userSkills, {sortBy}) is about to be called.
ValidateInit ==
    /\ method \in {"validateSkills", "validateFullstack"}
    /\ track \in (IF method = "validateSkills" THEN ValidateTracks
                  ELSE {"fullstack"})
    /\ roadmaps \in Configs(track)
    /\ userSkillNames \in UserLists(track)
    /\ strongSkills \in StrongLists(userSkillNames)
    /\ sortBy \in {"impact", "demand"}
    /\ gaps = <<>>
    /\ sections = NoSections
    /\ report = Null
    /\ vpc = "called"
    /\ sortedGaps = <<>>
    /\ spc = "idle"

\* validateSkills up to its await: getCoreSkills throws, or coreSkills.map
\* throws on undefined, or the gaps are computed and addEvidenceToGaps starts
\* every lookup.
ValidateSkills ==
    LET coreSkills == getCoreSkills(track)
        coreSkillNames == [i \in 1..Len(coreSkills.value) |->
                              coreSkills.value[i].name]
        found == findGaps(track, userSkillNames, coreSkillNames)
        ids == LookupIds(found)
        s == StartAll(ids, found, track, now, cache, <<>>)
        k == ContinueAll(ids, found, track, now, s.cache, s.lookups)
    IN  /\ method = "validateSkills"
        /\ vpc = "called"
        /\ IF coreSkills.kind = "threw"
           THEN /\ report' = Rejected("Invalid track")
                /\ vpc' = "threw"
                /\ UNCHANGED <<gaps, cache, lookups, epc>>
           ELSE IF coreSkills.kind = "undefined"
           THEN /\ report' = Rejected("TypeError")
                /\ vpc' = "threw"
                /\ UNCHANGED <<gaps, cache, lookups, epc>>
           ELSE /\ gaps' = found
                /\ cache' = k.cache
                /\ lookups' = k.lookups
                /\ epc' = "awaiting"
                /\ vpc' = "awaiting"
                /\ report' = report
        /\ UNCHANGED <<notValidate, sections>>

\* validateSkills after its await: the gaps are sorted, the learning order
\* and the suggestions are computed and the report is returned. (Of the
\* report, the timestamp and the roadmap version are left out.)
ReturnReport ==
    LET coreSkills == getCoreSkills(track)
        coreSkillNames == [i \in 1..Len(coreSkills.value) |->
                              coreSkills.value[i].name]
        sorted == sortGaps(gapsWithEvidence, sortBy)
        learningOrderSkills ==
            getLearningOrder(TrackGraph(track),
                             [i \in 1..Len(sorted) |-> sorted[i].skill])
    IN  /\ method = "validateSkills"
        /\ vpc = "awaiting"
        /\ epc = "returned"
        /\ sortedGaps' = sorted
        /\ report' = [track |-> track,
                      totalCoreSkills |-> Len(coreSkills.value),
                      userSkillCount |-> Len(userSkillNames),
                      gapCount |-> Len(gaps),
                      coveragePercent |->
                          coveragePercent(Len(gaps), Len(coreSkills.value)),
                      gaps |-> sorted,
                      keepSharp |->
                          findKeepSharpSkills(track, strongSkills,
                                              coreSkillNames),
                      learningOrder |-> learningOrderSkills,
                      suggestedNext |->
                          getSuggestedNext(track, userSkillNames,
                                           learningOrderSkills, 3),
                      sortedBy |-> sortBy]
        /\ vpc' = "returned"
        /\ UNCHANGED <<cacheVars, track, orderVars, userSkillNames, gaps,
                       evidenceVars, keyVars, sortBy, spc, trendVars,
                       roadmaps, method, sections, strongSkills, moreVars>>

\* validateFullstack up to its await: the missing core skills are filed under
\* their sections and addEvidenceToGaps starts every lookup for allGaps.
ValidateFullstack ==
    LET coreSkills == getCoreSkills("fullstack")
        userSkillSet == {toLowerCase(userSkillNames[i]) :
                            i \in 1..Len(userSkillNames)}
        missing == SelectSeq(coreSkills.value,
                             LAMBDA coreSkill :
                                 toLowerCase(coreSkill.name)
                                     \notin userSkillSet)
        frontendGaps == SectionGaps(missing, "frontend")
        backendGaps == SectionGaps(missing, "backend")
        bothGaps == SectionGaps(missing, "both")
        allGaps == frontendGaps \o backendGaps \o bothGaps
        ids == LookupIds(allGaps)
        s == StartAll(ids, allGaps, "fullstack", now, cache, <<>>)
        k == ContinueAll(ids, allGaps, "fullstack", now, s.cache, s.lookups)
    IN  /\ method = "validateFullstack"
        /\ vpc = "called"
        /\ IF coreSkills.kind = "threw"
           THEN /\ report' = Rejected("Invalid track")
                /\ vpc' = "threw"
                /\ UNCHANGED <<gaps, sections, cache, lookups, epc>>
           ELSE /\ sections' = [frontend |-> frontendGaps,
                                backend |-> backendGaps,
                                both |-> bothGaps]
                /\ gaps' = allGaps
                /\ cache' = k.cache
                /\ lookups' = k.lookups
                /\ epc' = "awaiting"
                /\ vpc' = "awaiting"
                /\ report' = report
        /\ UNCHANGED notValidate

\* One section of the report of validateFullstack.
SectionReport(withEvidence, sectionGaps, by) ==
    LET sectionWithEvidence == SectionWithEvidence(withEvidence, sectionGaps)
    IN  [gaps |-> sortGaps(sectionWithEvidence, by),
         count |-> Len(sectionWithEvidence)]

\* validateFullstack after its await: the gaps are separated back into their
\* sections, each section is sorted, the report is returned. (The timestamp
\* and the roadmap version are left out.)
ReturnSections ==
    LET coreSkills == getCoreSkills("fullstack")
    IN  /\ method = "validateFullstack"
        /\ vpc = "awaiting"
        /\ epc = "returned"
        /\ report' = [track |-> "fullstack",
                      totalCoreSkills |-> Len(coreSkills.value),
                      userSkillCount |-> Len(userSkillNames),
                      gapCount |-> Len(gaps),
                      coveragePercent |->
                          coveragePercent(Len(gaps), Len(coreSkills.value)),
                      sections |->
                          [frontend |-> SectionReport(gapsWithEvidence,
                                                      sections.frontend,
                                                      sortBy),
                           backend |-> SectionReport(gapsWithEvidence,
                                                     sections.backend,
                                                     sortBy),
                           both |-> SectionReport(gapsWithEvidence,
                                                  sections.both, sortBy)]]
        /\ vpc' = "returned"
        /\ UNCHANGED <<cacheVars, track, orderVars, userSkillNames, gaps,
                       evidenceVars, keyVars, sortVars, trendVars, roadmaps,
                       method, sections, strongSkills, moreVars>>

ValidateNext ==
    \/ ValidateSkills
    \/ ValidateFullstack
    \/ \E i \in 1..MaxGaps, p \in 1..2, total \in ValidateCounts :
          Respond(<<i, p>>, total)
    \/ \E i \in 1..MaxGaps, p \in 1..2 : Fail(<<i, p>>)
    \/ ReturnEvidence
    \/ ReturnReport
    \/ ReturnSections

(***************************************************************************)
(* apiKeyRateLimiter.                                                      *)
(***************************************************************************)
\* The key values users supply, and the value of a field that is not sent
\* (undefined, falsy).
RateKeys == {"t1", "t2"}

Absent == "-"

\* keyRequestStore.get(key) of a key that is not stored is Undefined.
EmptyStore == [key \in RateKeys |-> Undefined]

\* if (!keyData || now > keyData.resetTime) keyData = {count: 0, resetTime:
\* now + windowMs}, then keyData.count++.
Counted(keyData, t, window) ==
    LET current == IF keyData = Undefined
                   THEN [count |-> 0, resetTime |-> t + window]
                   ELSE IF t > keyData.resetTime
                   THEN [count |-> 0, resetTime |-> t + window]
                   ELSE keyData
    IN  [current EXCEPT !.count = current.count + 1]

\* The history of a key a request carried: its window is opened by the
\* first request that carries the key after the reset time of the window
\* before; passed counts the requests of the window handed to next().
Carried(history, t, window, passedOn) ==
    LET current == IF history = Undefined
                   THEN [passed |-> 0, resetTime |-> t + window]
                   ELSE IF t > history.resetTime
                   THEN [passed |-> 0, resetTime |-> t + window]
                   ELSE history
    IN  [current EXCEPT !.passed = current.passed + (IF passedOn THEN 1 ELSE 0)]

\* What the limiter leaves alone.
notRate == <<cacheVars, track, orderVars, gapVars, evidenceVars, keyVars,
            sortVars, trendVars, roadmaps, validateVars, suggestVars>>

\* The server has started: the store is empty; the window and the limit per
\* key are the configured ones (RATE_LIMIT_WINDOW_MS, RATE_LIMIT_PER_KEY_MAX).
RateInit ==
    /\ keyRequestStore = EmptyStore
    /\ dateNow = 0
    /\ windowMs \in 1..MaxWindow
    /\ maxPerKey \in 1..MaxPerKey
    /\ carried = EmptyStore
    /\ response = Null

\* Time passes.
RateTick ==
    /\ dateNow < MaxRateTime
    /\ dateNow' = dateNow + 1
    /\ UNCHANGED <<notRate, keyRequestStore, windowMs, maxPerKey, carried,
                   response>>

\* apiKeyRateLimiter(req, res, next) on a request with these two fields: the
\* request is handed to next() or answered 429. (A key is counted at most
\* MaxOver times beyond the limit.)
Limit(githubToken, soKey) ==
    LET apiKey == IF githubToken # Absent THEN githubToken ELSE soKey
        keyData == Counted(keyRequestStore[apiKey], dateNow, windowMs)
        status == IF apiKey = Absent THEN "next"
                  ELSE IF keyData.count > maxPerKey THEN "429" ELSE "next"
    IN  /\ apiKey # Absent => keyData.count <= maxPerKey + MaxOver
        /\ keyRequestStore' =
              IF apiKey = Absent THEN keyRequestStore
              ELSE [keyRequestStore EXCEPT ![apiKey] = keyData]
        /\ response' = [githubToken |-> githubToken, soKey |-> soKey,
                        status |-> status]
        /\ carried' =
              [key \in RateKeys |->
                  IF key \in {githubToken, soKey}
                  THEN Carried(carried[key], dateNow, windowMs,
                               status = "next")
                  ELSE carried[key]]
        /\ UNCHANGED <<notRate, dateNow, windowMs, maxPerKey>>

\* cleanExpiredKeyEntries(), called by the hourly interval timer
CleanExpiredKeyEntries ==
    /\ keyRequestStore' =
          [key \in RateKeys |->
              IF keyRequestStore[key] = Undefined THEN Undefined
              ELSE IF dateNow > keyRequestStore[key].resetTime THEN Undefined
              ELSE keyRequestStore[key]]
    /\ UNCHANGED <<notRate, dateNow, windowMs, maxPerKey, carried, response>>

RateNext ==
    \/ RateTick
    \/ \E githubToken, soKey \in RateKeys \cup {Absent} :
          Limit(githubToken, soKey)
    \/ CleanExpiredKeyEntries

(***************************************************************************)
(* Specifications: one per component, the others at rest.                  *)
(***************************************************************************)
\* The catalog is the shipped one.
ShippedConfig == roadmaps = ShippedLengths

CacheIdle == CacheInit /\ maxSize = 1 /\ defaultTTL = 1

OrderIdle ==
    /\ skillNames = <<>>
    /\ trackPrereqs = Undefined
    /\ ordered = <<>>
    /\ remaining = <<>>
    /\ processed = {}
    /\ iterations = 0
    /\ olpc = "idle"
    /\ exit = "none"
    /\ result = <<>>

GapIdle == userSkillNames = <<>> /\ vpc = "idle"

EvidenceIdle == lookups = <<>> /\ gapsWithEvidence = <<>> /\ epc = "idle"

KeyIdle ==
    /\ keyPrefix = "github:demand"
    /\ keyParams = <<>>
    /\ reordered = <<>>
    /\ generated = <<>>
    /\ kpc = "idle"

SortIdle == sortBy = "impact" /\ sortedGaps = <<>> /\ spc = "idle"

TrendIdle ==
    /\ today = [year |-> 2024, month |-> 0, day |-> 15]
    /\ trendProvider = "github"
    /\ trendSkill = "HTML"
    /\ monthIndex = 0
    /\ monthlyData = <<>>
    /\ trendResult = Null
    /\ tpc = "idle"

ValidateIdle ==
    /\ method = "none"
    /\ sections = NoSections
    /\ report = Null
    /\ strongSkills = <<>>

\* The other operations at rest.
SuggestIdle ==
    /\ currentSkills = <<>>
    /\ gapSkills = <<>>
    /\ sliceCount = 0
    /\ suggestions = <<>>
    /\ npc = "idle"

RateIdle ==
    /\ keyRequestStore = EmptyStore
    /\ dateNow = 0
    /\ windowMs = 1
    /\ maxPerKey = 1
    /\ carried = EmptyStore
    /\ response = Null

MoreIdle == SuggestIdle /\ RateIdle

OtherIdle == KeyIdle /\ SortIdle /\ TrendIdle /\ ValidateIdle /\ MoreIdle

\* The cache is used, nothing else runs.
InitCache ==
    /\ ShippedConfig
    /\ CacheInit
    /\ track = UnknownTrack
    /\ OrderIdle
    /\ GapIdle
    /\ gaps = <<>>
    /\ EvidenceIdle
    /\ OtherIdle

\* getLearningOrder is called on a shipped track graph.
InitOrder ==
    /\ ShippedConfig
    /\ OrderInit
    /\ CacheIdle
    /\ GapIdle
    /\ gaps = <<>>
    /\ EvidenceIdle
    /\ OtherIdle

\* getLearningOrder is called on a graph with cycles.
InitCycles ==
    /\ ShippedConfig
    /\ CycleInit
    /\ CacheIdle
    /\ GapIdle
    /\ gaps = <<>>
    /\ EvidenceIdle
    /\ OtherIdle

\* validateSkills is called.
InitGaps ==
    /\ ShippedConfig
    /\ GapInit
    /\ CacheIdle
    /\ OrderIdle
    /\ EvidenceIdle
    /\ OtherIdle

\* addEvidenceToGaps is called on an empty cache.
InitEvidence ==
    /\ ShippedConfig
    /\ EvidenceInit
    /\ CacheInit
    /\ OrderIdle
    /\ GapIdle
    /\ OtherIdle

\* generateKey is called.
InitKeys ==
    /\ ShippedConfig
    /\ KeyInit
    /\ CacheIdle
    /\ track = UnknownTrack
    /\ OrderIdle
    /\ GapIdle
    /\ gaps = <<>>
    /\ EvidenceIdle
    /\ SortIdle
    /\ TrendIdle
    /\ ValidateIdle
    /\ MoreIdle

\* generateKey is called on two objects with caller-supplied values.
InitCallerKeys ==
    /\ ShippedConfig
    /\ CallerInit
    /\ CacheIdle
    /\ track = UnknownTrack
    /\ OrderIdle
    /\ GapIdle
    /\ gaps = <<>>
    /\ EvidenceIdle
    /\ SortIdle
    /\ TrendIdle
    /\ ValidateIdle
    /\ MoreIdle

\* getSuggestedNext is called.
InitSuggest ==
    /\ ShippedConfig
    /\ SuggestInit
    /\ CacheIdle
    /\ OrderIdle
    /\ GapIdle
    /\ gaps = <<>>
    /\ EvidenceIdle
    /\ KeyIdle
    /\ SortIdle
    /\ TrendIdle
    /\ ValidateIdle
    /\ RateIdle

\* The rate limiter serves requests.
InitRate ==
    /\ ShippedConfig
    /\ RateInit
    /\ CacheIdle
    /\ track = UnknownTrack
    /\ OrderIdle
    /\ GapIdle
    /\ gaps = <<>>
    /\ EvidenceIdle
    /\ KeyIdle
    /\ SortIdle
    /\ TrendIdle
    /\ ValidateIdle
    /\ SuggestIdle

\* sortGaps is called.
InitSort ==
    /\ ShippedConfig
    /\ SortInit
    /\ CacheIdle
    /\ track = UnknownTrack
    /\ OrderIdle
    /\ GapIdle
    /\ gaps = <<>>
    /\ lookups = <<>>
    /\ epc = "idle"
    /\ KeyIdle
    /\ TrendIdle
    /\ ValidateIdle
    /\ MoreIdle

\* getSkillDemandOverTime is called on an empty cache.
InitTrend ==
    /\ ShippedConfig
    /\ TrendInit
    /\ CacheInit
    /\ track = "frontend"
    /\ OrderIdle
    /\ GapIdle
    /\ gaps = <<>>
    /\ EvidenceIdle
    /\ KeyIdle
    /\ SortIdle
    /\ ValidateIdle
    /\ MoreIdle

\* validateSkills or validateFullstack is called on an empty cache.
InitValidate ==
    /\ ValidateInit
    /\ CacheInit
    /\ OrderIdle
    /\ lookups = <<>>
    /\ gapsWithEvidence = <<>>
    /\ epc = "idle"
    /\ KeyIdle
    /\ TrendIdle
    /\ MoreIdle

\* The cache, used by one caller at a time.
Spec == InitCache /\ [][CacheNext]_vars

\* The cache, with two getOrSet calls in progress at once.
SpecOverlap == InitCache /\ [][OverlapNext]_vars

\* The cache under the hourly interval timer: whatever the requests do, the
\* timer's callback runs again and again.
SpecSweep == InitCache /\ [][SweepNext]_vars /\ WF_vars(CallCleanExpired)

\* getLearningOrder on the shipped track graphs.
SpecOrder == InitOrder /\ [][OrderNext]_vars

\* getLearningOrder on graphs with cycles.
SpecCycles == InitCycles /\ [][OrderNext]_vars

\* findGaps.
SpecGaps == InitGaps /\ [][GapNext]_vars

\* addEvidenceToGaps over the cache and the two providers.
SpecEvidence == InitEvidence /\ [][EvidenceNext]_vars

\* generateKey on objects that differ in insertion order only.
SpecKeys == InitKeys /\ [][KeyNext]_vars

\* apiKeyRateLimiter.
SpecRate == InitRate /\ [][RateNext]_vars

\* getSuggestedNext.
SpecSuggest == InitSuggest /\ [][SuggestNext]_vars

\* generateKey on objects whose values are supplied by the caller.
SpecCallerKeys == InitCallerKeys /\ [][KeyNext]_vars

\* sortGaps with each strategy.
SpecSort == InitSort /\ [][SortNext]_vars

\* getSkillDemandOverTime of both providers over the cache.
SpecTrend == InitTrend /\ [][TrendNext]_vars

\* validateSkills and validateFullstack over the cache and the two providers.
SpecValidate == InitValidate /\ [][ValidateNext]_vars

(***************************************************************************)
(* Properties of the cache.                                                *)
(***************************************************************************)
\* The step is the operation op (every operation records itself in last; the
\* clock stands still during an operation).
IsOp(op) == now' = now /\ last'.op = op

\* The step is a getOrSet whose producer resolved: it stores and returns.
IsFresh == IsOp("getOrSet") /\ ~last'.fromCache /\ ~last'.threw

\* The step is a getOrSet whose producer failed.
IsFailure == IsOp("getOrSet") /\ last'.threw

\* The step is a set (by set itself or by the set that ends a getOrSet miss).
IsSet == IsOp("set") \/ IsFresh

\* The step is the synchronous part of a getOrSet: a hit, or a miss that has
\* invoked the producer.
IsGetOrSetCall == IsOp("fetch") \/ (IsOp("getOrSet") /\ last'.fromCache)

\* C1: the number of stored entries never exceeds maxSize; a set of an absent
\* key at capacity evicts one entry and then inserts, a set of a present key
\* evicts nothing.
C1_SizeNeverExceedsMaxSize ==
    /\ Len(cache) <= maxSize
    /\ [][/\ Len(cache') <= maxSize'
          /\ IsSet =>
               /\ HasKey(cache', last'.key)
               /\ HasKey(cache, last'.key) => KeysOf(cache') = KeysOf(cache)
               /\ ~HasKey(cache, last'.key) /\ Len(cache) = maxSize =>
                     /\ Len(cache') = maxSize
                     /\ Cardinality(KeysOf(cache) \ KeysOf(cache')) = 1
               /\ ~HasKey(cache, last'.key) /\ Len(cache) < maxSize =>
                     KeysOf(cache') = KeysOf(cache) \cup {last'.key}]_vars

\* C1 witness: a set at capacity has just evicted an entry.
C1_Witness ==
    /\ last.op = "set"
    /\ last.evicted # NoKey
    /\ Len(cache) = maxSize
    /\ maxSize = MaxCap

\* C2: a get of an entry whose expiry is in the past returns null and removes
\* the entry.
C2_ExpiredNeverReturned ==
    [][(/\ IsOp("get")
        /\ HasKey(cache, last'.key)
        /\ now > EntryOf(cache, last'.key).expiry)
         => /\ last'.data = Null
            /\ KeysOf(cache') = KeysOf(cache) \ {last'.key}]_vars

\* C2 witness: a get has just found an expired entry, removed it and returned
\* null.
C2_Witness ==
    /\ last.op = "get"
    /\ last.removed = 1
    /\ last.data = Null
    /\ ~HasKey(cache, last.key)
    /\ now > 0

\* C3: a set of an absent key at capacity evicts exactly the entry accessed
\* least recently, an access being the insertion of the key or a successful
\* get of it.
C3_EvictsLeastRecentlyAccessed ==
    [][(IsSet /\ ~HasKey(cache, last'.key) /\ Len(cache) = maxSize)
         => /\ lru # <<>>
            /\ KeysOf(cache) \ KeysOf(cache') = {Head(lru)}
            /\ Len(cache') = maxSize]_vars

\* C3 witness: with room for two entries, a set has evicted one of them and
\* kept the other.
C3_Witness ==
    /\ last.op = "set"
    /\ last.evicted # NoKey
    /\ Len(cache) = 2
    /\ cache[2].key = last.key

\* C4: getOrSet does not invoke the producer when the key is stored and not
\* expired (it returns the stored value, fromCache = true), and invokes it
\* once on a miss (the result is stored and returned, fromCache = false).
C4_ProducerAtMostOnce ==
    [][/\ IsGetOrSetCall =>
            IF Live(cache, last'.key, now)
            THEN /\ last'.op = "getOrSet"
                 /\ last'.fromCache
                 /\ last'.data = EntryOf(cache, last'.key).value
                 /\ calls'[last'.proc].pc = "idle"
            ELSE /\ last'.op = "fetch"
                 /\ calls[last'.proc].pc = "idle"
                 /\ calls'[last'.proc].pc = "fetching"
       /\ IsFresh =>
            /\ calls[last'.proc].pc = "fetching"
            /\ calls'[last'.proc].pc = "idle"
            /\ HasKey(cache', last'.key)
            /\ EntryOf(cache', last'.key).value = last'.data]_vars

\* C5: a failing producer makes getOrSet throw and store nothing, and a
\* getOrSet of a key that is not stored invokes its producer.
C5_FailureNotCached ==
    [][/\ IsFailure =>
            /\ cache' = cache
            /\ calls[last'.proc].pc = "fetching"
            /\ calls'[last'.proc].pc = "idle"
       /\ (IsGetOrSetCall /\ ~HasKey(cache, last'.key)) =>
            /\ last'.op = "fetch"
            /\ calls'[last'.proc].pc = "fetching"]_vars

\* C5 witness: after a failed getOrSet the next getOrSet of the same key has
\* invoked its producer again.
C5_Witness ==
    /\ last.op = "fetch"
    /\ last.retry
    /\ calls[last.proc].pc = "fetching"
    /\ ~HasKey(cache, last.key)

\* C6: overlapping getOrSet calls each invoke their own producer and return its
\* result; the Map holds at most one entry per key, its value is the one
\* written last, and the size bound holds in every interleaving.
C6_OverlappingCalls ==
    [][/\ Len(cache') <= maxSize'
       /\ \A i, j \in 1..Len(cache') : i # j => cache'[i].key # cache'[j].key
       /\ \A key \in KeysOf(cache') : EntryOf(cache', key).value = lastWrite'[key]
       /\ (IsGetOrSetCall /\ ~HasKey(cache, last'.key)) =>
            calls'[last'.proc].pc = "fetching"
       /\ IsFresh =>
            /\ calls[last'.proc].pc = "fetching"
            /\ calls[last'.proc].key = last'.key
            /\ EntryOf(cache', last'.key).value = last'.data]_vars

\* C6 witness: two overlapping calls for one key have both completed with
\* different results and the entry holds the result written last.
C6_Witness ==
    /\ last.op = "getOrSet"
    /\ last.overlap
    /\ \A p \in Procs : calls[p].pc = "idle"
    /\ HasKey(cache, last.key)
    /\ EntryOf(cache, last.key).value = last.data
    /\ last.data = [v |-> "b"]


\* C15: set(key, value, ttl) stores expiry = now + ttl for every ttl the
\* caller supplies, 0 included, and now + defaultTTL only when no ttl is
\* supplied.
C15_SuppliedTtlIsUsed ==
    [][\A key \in Keys, value \in Values, ttlMs \in TtlArgs :
          CallSet(key, value, ttlMs) =>
             /\ HasKey(cache', key)
             /\ EntryOf(cache', key).expiry =
                   now + (IF ttlMs = <<>> THEN defaultTTL ELSE ttlMs[1])]_vars

\* C16: a get of a key that is stored and not past its expiry returns the
\* value of the latest set of that key (the entry has not been deleted,
\* cleared, evicted or swept since, or it would not be stored) and keeps the
\* entry.
C16_GetReturnsWhatWasSet ==
    [][(IsOp("get") /\ Live(cache, last'.key, now))
         => /\ last'.data = lastWrite[last'.key]
            /\ HasKey(cache', last'.key)
            /\ EntryOf(cache', last'.key).value = lastWrite[last'.key]]_vars

\* C16 witness: a get made at the very time of the entry's expiry, after the
\* clock has advanced, has returned the stored value "a".
C16_Witness ==
    /\ last.op = "get"
    /\ last.data = [v |-> "a"]
    /\ HasKey(cache, last.key)
    /\ EntryOf(cache, last.key).expiry = now
    /\ now > 0

\* An entry of key with that expiry is stored and the clock is past it.
ExpiredEntry(key, expiry) ==
    /\ HasKey(cache, key)
    /\ EntryOf(cache, key).expiry = expiry
    /\ now > expiry

\* C25: cleanExpired deletes exactly the entries whose expiry is before the
\* clock and returns their number; the entries it keeps are unchanged and in
\* the same order; and with the sweep run by the interval timer again and
\* again, every entry that has expired is removed at some later time, read
\* or not.
C25_SweepRemovesExactlyTheExpired ==
    /\ [][IsOp("cleanExpired") =>
            /\ KeysOf(cache') =
                  {k \in KeysOf(cache) : ~(now > EntryOf(cache, k).expiry)}
            /\ last'.removed = Cardinality(KeysOf(cache) \ KeysOf(cache'))
            /\ \A i, j \in 1..Len(cache') :
                 i < j =>
                    \E m, n \in 1..Len(cache) :
                       m < n /\ cache[m] = cache'[i] /\ cache[n] = cache'[j]
            /\ \A k \in KeysOf(cache') : EntryOf(cache', k) = EntryOf(cache, k)]_vars
    /\ \A key \in SweepKeys, expiry \in 0..MaxTime :
          ExpiredEntry(key, expiry) ~> ~ExpiredEntry(key, expiry)

\* C25 witness: a sweep has removed one expired entry and kept the other
\* entry, which expires only now.
C25_Witness ==
    /\ last.op = "cleanExpired"
    /\ last.removed = 1
    /\ Len(cache) = 1
    /\ cache[1].expiry = now

\* C26: a set counts as a use of its key, also when it overwrites: the key of
\* a set is the most recently used entry, so the eviction made by the very
\* next set, of an absent key at capacity, takes another entry whenever
\* another entry is stored.
C26_OverwriteCountsAsUse ==
    [][(/\ last.op = "set"
        /\ IsSet
        /\ ~HasKey(cache, last'.key)
        /\ Len(cache) = maxSize
        /\ Len(cache) >= 2)
         => HasKey(cache', last.key)]_vars

\* C27: after a getOrSet whose producer resolved, with any value, the next
\* cache operation being a getOrSet of the same key made while the entry is
\* stored and not expired returns that value with fromCache = true and
\* invokes no producer.
C27_SecondGetOrSetIsServedFromCache ==
    [][(/\ last.op = "getOrSet" /\ ~last.fromCache /\ ~last.threw
        /\ IsGetOrSetCall
        /\ last'.key = last.key
        /\ Live(cache, last.key, now))
         => /\ last'.op = "getOrSet"
            /\ last'.fromCache
            /\ last'.data = last.data
            /\ calls'[last'.proc].pc = "idle"]_vars

(***************************************************************************)
(* Properties of getLearningOrder.                                         *)
(***************************************************************************)
\* res holds every element of names once and nothing else.
IsOrderingOf(res, names) ==
    /\ Len(res) = Len(names)
    /\ Range(res) = Range(names)
    /\ \A i, j \in 1..Len(res) : i # j => res[i] # res[j]

\* C7: on the three track graphs getLearningOrder returns an ordering of
\* exactly the input skills in which every direct prerequisite of a skill that
\* is itself in the input comes before the skill (prerequisites outside the
\* input count as known); in particular this holds for every skill whose
\* prerequisites are all in the input.
C7_LearningOrderRespectsPrerequisites ==
    (olpc = "returned" /\ track \in Tracks) =>
        /\ IsOrderingOf(result, skillNames)
        /\ \A i \in 1..Len(result) :
             \A p \in Range(PrereqsOf(PREREQUISITES[track], result[i])) :
                p \in Range(skillNames) => \E j \in 1..(i - 1) : result[j] = p

\* C7 witness: the frontend example; HTML and JavaScript come before React
\* although ES6+ is not in the input.
C7_Witness ==
    /\ olpc = "returned"
    /\ track = "frontend"
    /\ skillNames = <<"React", "JavaScript", "HTML", "CSS">>
    /\ result = <<"HTML", "CSS", "JavaScript", "React">>
    /\ iterations = 3

\* C8: on any graph (cycles, self-prerequisites, prerequisites outside the
\* graph) getLearningOrder makes at most 2 * |input| passes and never stands at
\* that bound with skills unplaced; every pass after which the loop goes on
\* has placed a skill, so the loop ends; and the list returned holds every
\* input skill exactly once.
C8_TerminatesWithEverySkillOnce ==
    /\ [](/\ iterations <= 2 * Len(skillNames)
          /\ (olpc = "loop" /\ remaining # <<>>) =>
                iterations < 2 * Len(skillNames)
          /\ (olpc = "returned" /\ trackPrereqs # Undefined) =>
                IsOrderingOf(result, skillNames))
    /\ [][(olpc = "loop" /\ olpc' = "loop") =>
             /\ iterations' = iterations + 1
             /\ Len(remaining') < Len(remaining)]_vars

\* C8 witness: a two-skill cycle A <-> B and a skill C that requires itself
\* and the outside skill X; no skill can be placed and the fallback returns
\* all three.
C8_Witness ==
    /\ olpc = "returned"
    /\ track = "custom"
    /\ trackPrereqs["A"] = <<"B">>
    /\ trackPrereqs["B"] = <<"A">>
    /\ trackPrereqs["C"] = <<"C", "X">>
    /\ skillNames = <<"B", "C", "A">>
    /\ exit = "break"
    /\ result = <<"A", "B", "C">>

\* The place of a skill in a list without repetition.
IndexOf(list, name) == CHOOSE i \in 1..Len(list) : list[i] = name

\* C24: every pass of getLearningOrder keeps what was placed and appends to
\* it.  A pass that places no skill while some remain appends all remaining
\* skills in ascending order of their UTF-16 code units and returns; a pass
\* that places skills appends exactly the skills it placed, in the order in
\* which they stand in the input, and the loop goes on.
C24_FlushSortedAndPassInInputOrder ==
    [][(olpc = "loop" /\ iterations' = iterations + 1) =>
         LET added == SubSeq(ordered', Len(ordered) + 1, Len(ordered'))
         IN  /\ Len(ordered') >= Len(ordered)
             /\ SubSeq(ordered', 1, Len(ordered)) = ordered
             /\ IF processed' = processed
                THEN /\ remaining # <<>>
                     /\ Range(added) = Range(remaining)
                     /\ Len(added) = Len(remaining)
                     /\ \A i \in 1..(Len(added) - 1) :
                          StrLess(added[i], added[i + 1])
                     /\ olpc' = "returned"
                     /\ result' = ordered'
                ELSE /\ Range(added) = processed' \ processed
                     /\ Range(remaining') = Range(remaining) \ Range(added)
                     /\ \A i \in 1..(Len(added) - 1) :
                          IndexOf(skillNames, added[i])
                              < IndexOf(skillNames, added[i + 1])
                     /\ olpc' = "loop"]_vars

\* C24 witness: input C, B, A where B and C require each other; the first
\* pass places A, the second places nothing and flushes B before C although
\* C stands first in the input.
C24_Witness ==
    /\ olpc = "returned"
    /\ exit = "break"
    /\ track = "custom"
    /\ trackPrereqs["A"] = <<>>
    /\ trackPrereqs["B"] = <<"C">>
    /\ trackPrereqs["C"] = <<"B">>
    /\ skillNames = <<"C", "B", "A">>
    /\ iterations = 2
    /\ result = <<"A", "B", "C">>

\* What is left of the skills S after taking away, again and again, the
\* skills none of whose prerequisites is left.
RECURSIVE Peel(_, _)
Peel(graph, S) ==
    LET free == {s \in S : Range(PrereqsOf(graph, s)) \cap S = {}}
    IN  IF free = {} THEN S ELSE Peel(graph, S \ free)

\* The graph has no cycle (and no skill that requires itself).
Acyclic(graph) == Peel(graph, DOMAIN graph) = {}

\* C28: the three shipped graphs are acyclic, and on an acyclic graph
\* getLearningOrder leaves its loop through the loop condition, never through
\* the flush, and returns a list in which every direct prerequisite of a
\* skill that is itself in the input stands before the skill, whatever other
\* prerequisites the skill has.
C28_AcyclicNeverFlushes ==
    /\ track \in Tracks => Acyclic(trackPrereqs)
    /\ (olpc = "returned" /\ trackPrereqs # Undefined /\ Acyclic(trackPrereqs))
         => /\ exit = "loopEnd"
            /\ \A i, j \in 1..Len(result) :
                 Includes(PrereqsOf(trackPrereqs, result[i]), result[j])
                     => j < i

\* C28 witness: on the backend track Express.js requires Node.js, which is in
\* the input, and JavaScript, which is not; Node.js is placed in the first
\* pass and Express.js in the second.
C28_Witness ==
    /\ olpc = "returned"
    /\ track = "backend"
    /\ skillNames = <<"Express.js", "Node.js">>
    /\ exit = "loopEnd"
    /\ iterations = 2
    /\ result = <<"Node.js", "Express.js">>

\* C29: the list getLearningOrder returns is the function's value on the
\* input, and applying getLearningOrder to that list, on the same graph,
\* gives the list back; on any graph, with cycles or without, and on a track
\* without a graph.
C29_LearningOrderIsIdempotent ==
    olpc = "returned" =>
        /\ result = getLearningOrder(trackPrereqs, skillNames)
        /\ getLearningOrder(trackPrereqs, result) = result

\* C29 witness: A and B require each other and C requires only the outside
\* skill X; the input B, C, A is reordered to C, A, B by a pass and the flush,
\* and that list is returned again when it is the input.
C29_Witness ==
    /\ olpc = "returned"
    /\ exit = "break"
    /\ track = "custom"
    /\ trackPrereqs["A"] = <<"B">>
    /\ trackPrereqs["B"] = <<"A">>
    /\ trackPrereqs["C"] = <<"X">>
    /\ skillNames = <<"B", "C", "A">>
    /\ result = <<"C", "A", "B">>
    /\ getLearningOrder(trackPrereqs, result) = result

(***************************************************************************)
(* Properties of findGaps.                                                 *)
(***************************************************************************)
\* Code unit x is an upper-case letter and y the same letter in lower case.
LowerOf(x, y) == x \in 65..90 /\ y = x + 32

\* The strings a and b are equal up to the case of their letters.
SameIgnoringCase(a, b) ==
    LET u == CodeUnits[a]
        v == CodeUnits[b]
    IN  /\ Len(u) = Len(v)
        /\ \A i \in 1..Len(u) :
             u[i] = v[i] \/ LowerOf(u[i], v[i]) \/ LowerOf(v[i], u[i])

\* The place of a skill in the catalog of the track.
CatalogIndex(t, name) ==
    CHOOSE i \in 1..Len(ROADMAPS[t].coreSkills) :
        ROADMAPS[t].coreSkills[i].name = name

\* C9: the gaps are core skills of the track, each once and in catalog order,
\* and a core skill is a gap exactly if no user skill has its name up to case.
C9_GapsAreUnmatchedCoreSkills ==
    vpc = "gaps" =>
        LET core == Range(coreSkillNamesOf(track))
            gapNames == [i \in 1..Len(gaps) |-> gaps[i].skill]
        IN  /\ Range(gapNames) \subseteq core
            /\ \A i \in 1..(Len(gaps) - 1) :
                 CatalogIndex(track, gapNames[i])
                     < CatalogIndex(track, gapNames[i + 1])
            /\ \A c \in core :
                 c \in Range(gapNames) <=>
                    ~\E i \in 1..Len(userSkillNames) :
                        SameIgnoringCase(c, userSkillNames[i])

\* C9 witness: on the frontend track a user names HTML in lower case and
\* React in upper case; both are matched and the other 39 core skills are
\* gaps, CSS first.
C9_Witness ==
    /\ vpc = "gaps"
    /\ track = "frontend"
    /\ userSkillNames = <<"html", "REACT">>
    /\ Len(gaps) = Len(ROADMAPS_frontend) - 2
    /\ gaps[1].skill = "CSS"

(***************************************************************************)
(* Properties of getSuggestedNext.                                         *)
(***************************************************************************)
\* The direct prerequisites of skill on the track that no current skill
\* names, up to case.
MissingFrom(skill) ==
    {p \in Range(getPrerequisites(track, skill)) :
        ~\E i \in 1..Len(currentSkills) :
            SameIgnoringCase(p, currentSkills[i])}

\* The gap skills that lack at most one direct prerequisite, in the order of
\* gapSkills.
Qualifying ==
    SelectSeq(gapSkills, LAMBDA skill : Cardinality(MissingFrom(skill)) <= 1)

\* C22: getSuggestedNext returns one suggestion for each of the first count
\* qualifying gap skills, in their order, all of them if fewer qualify: a
\* skill with every prerequisite met gets the reason "Prerequisites met" and
\* no missingPrereqs, a skill with one prerequisite missing names it in
\* missingPrereqs and in the reason "Learn <prerequisite> first", and a skill
\* with two or more missing prerequisites is not returned.
C22_SuggestsFirstQualifyingGaps ==
    npc = "returned" =>
        /\ Len(suggestions) = IF sliceCount < Len(Qualifying) THEN sliceCount
                              ELSE Len(Qualifying)
        /\ \A i \in 1..Len(suggestions) :
             LET s == suggestions[i]
                 missing == MissingFrom(s.skill)
             IN  /\ s.skill = Qualifying[i]
                 /\ s.prereqs = getPrerequisites(track, s.skill)
                 /\ Cardinality(missing) < 2
                 /\ IF missing = {}
                    THEN /\ s.reason = CodeUnits["Prerequisites met"]
                         /\ "missingPrereqs" \notin DOMAIN s
                    ELSE /\ "missingPrereqs" \in DOMAIN s
                         /\ Len(s.missingPrereqs) = 1
                         /\ missing = {s.missingPrereqs[1]}
                         /\ s.reason = CodeUnits["Learn "]
                                          \o CodeUnits[s.missingPrereqs[1]]
                                          \o CodeUnits[" first"]

\* C22 witness: on the frontend track the user has html, javascript and es6+;
\* of the gaps Responsive Design (CSS and CSS Flexbox missing), React (CSS
\* missing) and CSS (nothing missing), and with count 3, React is suggested
\* with "Learn CSS first", then CSS, and Responsive Design is left out.
C22_Witness ==
    /\ npc = "returned"
    /\ track = "frontend"
    /\ currentSkills = <<"html", "javascript", "es6+">>
    /\ gapSkills = <<"Responsive Design", "React", "CSS">>
    /\ sliceCount = 3
    /\ Len(suggestions) = 2
    /\ suggestions[1].skill = "React"
    /\ suggestions[1].missingPrereqs = <<"CSS">>
    /\ suggestions[1].reason = <<76, 101, 97, 114, 110, 32, 67, 83, 83, 32,
                                 102, 105, 114, 115, 116>>
    /\ suggestions[2] = [skill |-> "CSS",
                         reason |-> CodeUnits["Prerequisites met"],
                         prereqs |-> <<"HTML">>]

(***************************************************************************)
(* Properties of addEvidenceToGaps.                                        *)
(***************************************************************************)
\* The lookup of gap i with provider p failed.
Failed(i, p) == "error" \in DOMAIN lookups[<<i, p>>].result

\* C10: addEvidenceToGaps never fails: while it waits, every lookup is a
\* request in flight or has produced a record, so the call goes on to return;
\* it returns one enriched gap per input gap, in input order; a failed lookup
\* contributes count 0, and a gap whose two lookups failed has combinedScore 0
\* and demandCategory low.
C10_EvidenceNeverFails ==
    /\ epc = "awaiting" =>
          \A i \in 1..Len(gaps), p \in 1..2 :
             /\ <<i, p>> \in DOMAIN lookups
             /\ lookups[<<i, p>>].pc \in {"http", "done"}
    /\ epc = "returned" =>
          /\ Len(gapsWithEvidence) = Len(gaps)
          /\ \A i \in 1..Len(gaps) :
               LET e == gapsWithEvidence[i].evidence
               IN  /\ gapsWithEvidence[i].skill = gaps[i].skill
                   /\ gapsWithEvidence[i].weight = gaps[i].weight
                   /\ Failed(i, 1) => e.github.count = 0
                   /\ Failed(i, 2) => e.stackoverflow.count = 0
                   /\ (Failed(i, 1) /\ Failed(i, 2)) =>
                         /\ e.twiceCombinedScore = 0
                         /\ e.demandCategory = "low"

\* C10 witness: both providers failed for both gaps and the call returned two
\* gaps with zero evidence.
C10_Witness ==
    /\ epc = "returned"
    /\ Len(gaps) = 2
    /\ \A i \in 1..2, p \in 1..2 : Failed(i, p)
    /\ Len(gapsWithEvidence) = 2
    /\ gapsWithEvidence[2].evidence.demandCategory = "low"

\* The evidence of gap i for provider p in the returned list.
EvidenceOf(i, p) ==
    IF p = 1 THEN gapsWithEvidence[i].evidence.github
    ELSE gapsWithEvidence[i].evidence.stackoverflow

\* C11: when the lookup of a provider fails for a gap, the gap's evidence for
\* that provider has count 0 and a populated (non-null) error field, and the
\* evidence for the other provider is what that provider returned.
C11_FailedLookupCarriesError ==
    epc = "returned" =>
       \A i \in 1..Len(gaps), p \in 1..2 :
          /\ Failed(i, p) =>
                /\ EvidenceOf(i, p).count = 0
                /\ EvidenceOf(i, p).error # Null
          /\ ~Failed(i, p) =>
                /\ EvidenceOf(i, p).count = lookups[<<i, p>>].result.data.count
                /\ EvidenceOf(i, p).error = Null

\* C13: every evidence record has combinedScore = github.count + 0.5 *
\* stackoverflow.count (compared as twice the score), and its category is
\* high iff the score is at least 1000, medium iff it is at least 300 and
\* below 1000, low otherwise: exactly one of the three, also for gaps whose
\* lookups failed.
C13_ScoreAndCategory ==
    epc = "returned" =>
       \A i \in 1..Len(gapsWithEvidence) :
          LET e == gapsWithEvidence[i].evidence
              twice == e.twiceCombinedScore
          IN  /\ twice = 2 * e.github.count + e.stackoverflow.count
              /\ twice >= 0
              /\ e.demandCategory \in {"high", "medium", "low"}
              /\ e.demandCategory = "high" <=> twice >= 2000
              /\ e.demandCategory = "medium" <=> (600 <= twice /\ twice < 2000)
              /\ e.demandCategory = "low" <=> twice < 600

\* C13 witness: one returned list holds a gap whose GitHub lookup failed and
\* whose Stack Overflow count of 600 puts it exactly on the medium threshold
\* (score 300), next to a gap of high demand.
C13_Witness ==
    /\ epc = "returned"
    /\ Len(gapsWithEvidence) = 2
    /\ Failed(1, 1)
    /\ gapsWithEvidence[1].evidence.stackoverflow.count = 600
    /\ gapsWithEvidence[1].evidence.twiceCombinedScore = 600
    /\ gapsWithEvidence[1].evidence.demandCategory = "medium"
    /\ gapsWithEvidence[2].evidence.demandCategory = "high"

(***************************************************************************)
(* Properties of generateKey.                                              *)
(***************************************************************************)
\* C17: generateKey does not depend on the insertion order of the properties
\* of params: two objects with the same property/value pairs yield the same
\* key for the same prefix.
C17_KeyIgnoresInsertionOrder ==
    kpc = "returned" => generated[1] = generated[2]

\* C17 witness: {b: 2, a: 1} and {a: 1, b: 2} have both produced the key
\* "github:demand:a:1|b:2".
C17_Witness ==
    /\ kpc = "returned"
    /\ keyPrefix = "github:demand"
    /\ keyParams = <<<<"b", CodeUnits["2"]>>, <<"a", CodeUnits["1"]>>>>
    /\ reordered = <<<<"a", CodeUnits["1"]>>, <<"b", CodeUnits["2"]>>>>
    /\ generated[1] = CodeUnits["github:demand"]
                         \o <<58, 97, 58, 49, 124, 98, 58, 50>>
    /\ generated[2] = generated[1]

\* C30: two calls of generateKey with the same prefix that return the same
\* key were made on objects with the same property/value pairs.
C30_KeysAreInjective ==
    (kpc = "returned" /\ generated[1] = generated[2])
        => Range(keyParams) = Range(reordered)

(***************************************************************************)
(* Properties of sortGaps.                                                 *)
(***************************************************************************)
\* The position of the gap of skill in list.
PositionOf(list, skill) == CHOOSE i \in 1..Len(list) : list[i].skill = skill

\* list is ordered by descending key (key(a, b): the key of a is at least
\* that of b) and gaps of equal key are in their order in input.
DescendingStable(list, input, AtLeast(_, _)) ==
    \A i, j \in 1..Len(list) :
       i < j =>
          /\ AtLeast(list[i], list[j])
          /\ AtLeast(list[j], list[i]) =>
                PositionOf(input, list[i].skill) < PositionOf(input, list[j].skill)

\* C14: for each of the four strategies sortGaps returns a permutation of its
\* input: impact by descending weight, demand by descending combinedScore,
\* quick_wins by descending combinedScore / (weight + 1), learning_order the
\* input unchanged; gaps with equal sort keys keep their input order.
C14_SortGapsStrategies ==
    (spc = "returned" /\ sortBy \in SORT_OPTIONS) =>
       LET ByWeight(a, b) == a.weight >= b.weight
           ByScore(a, b) ==
               a.evidence.twiceCombinedScore >= b.evidence.twiceCombinedScore
           \* sa / (wa + 1) >= sb / (wb + 1)
           ByRatio(a, b) ==
               a.evidence.twiceCombinedScore * (b.weight + 1)
                  >= b.evidence.twiceCombinedScore * (a.weight + 1)
       IN  /\ Len(sortedGaps) = Len(gapsWithEvidence)
           /\ Range(sortedGaps) = Range(gapsWithEvidence)
           /\ sortBy = "impact" =>
                 DescendingStable(sortedGaps, gapsWithEvidence, ByWeight)
           /\ sortBy = "demand" =>
                 DescendingStable(sortedGaps, gapsWithEvidence, ByScore)
           /\ sortBy = "quick_wins" =>
                 DescendingStable(sortedGaps, gapsWithEvidence, ByRatio)
           /\ sortBy = "learning_order" => sortedGaps = gapsWithEvidence

\* C14 witness: quick_wins has put C (score 2, weight 0) first and kept A
\* (score 2, weight 1) before B (score 1, weight 0), which tie at ratio 1.
C14_Witness ==
    /\ spc = "returned"
    /\ sortBy = "quick_wins"
    /\ Len(gapsWithEvidence) = 3
    /\ [i \in 1..3 |-> gapsWithEvidence[i].skill] = <<"A", "B", "C">>
    /\ [i \in 1..3 |-> gapsWithEvidence[i].weight] = <<1, 0, 0>>
    /\ [i \in 1..3 |-> gapsWithEvidence[i].evidence.twiceCombinedScore]
          = <<4, 2, 4>>
    /\ [i \in 1..3 |-> sortedGaps[i].skill] = <<"C", "A", "B">>

(***************************************************************************)
(* Properties of the providers' use of the cache.                          *)
(***************************************************************************)
\* The value was produced from a failed provider request: a demand record
\* with an error, or a trend with a month marked error.
FromFailure(value) ==
    \/ "error" \in DOMAIN value
    \/ /\ "monthlyData" \in DOMAIN value
       /\ \E m \in 1..Len(value.monthlyData) :
             "error" \in DOMAIN value.monthlyData[m]

\* C12: no cache entry holds a value derived from a failed provider request:
\* every stored value was produced from successful responses only (so that a
\* later identical request asks the provider again for what failed).
C12_NoFailureDerivedEntry ==
    \A n \in 1..Len(cache) : ~FromFailure(cache[n].value)

(***************************************************************************)
(* Properties of validateSkills and validateFullstack.                     *)
(***************************************************************************)
\* C18: a validation for a track outside {frontend, backend, fullstack} fails
\* at once: getCoreSkills throws, and validateSkills is rejected before any
\* provider lookup is started and before the cache is read or written.
C18_UnknownTrackIsRejected ==
    (method = "validateSkills" /\ track \notin Tracks /\ vpc # "called") =>
        /\ getCoreSkills(track).kind = "threw"
        /\ vpc = "threw"
        /\ "error" \in DOMAIN report
        /\ lookups = <<>>
        /\ epc = "idle"
        /\ cache = <<>>

\* The number a string of decimal digits stands for.
RECURSIVE DigitsValue(_)
DigitsValue(u) ==
    IF u = <<>> THEN 0
    ELSE 10 * DigitsValue(SubSeq(u, 1, Len(u) - 1)) + (u[Len(u)] - 48)

\* u is a number printed with one decimal: digits, ".", one digit.
IsFixed1(u) ==
    /\ Len(u) >= 3
    /\ u[Len(u) - 1] = 46
    /\ \A i \in (1..Len(u)) \ {Len(u) - 1} : u[i] \in 48..57

\* The tenths in a number printed with one decimal.
TenthsOf(u) == DigitsValue(SelectSeq(u, LAMBDA unit : unit # 46))

\* The report carries the percentage of its own counts: n tenths, with n the
\* integer nearest to 1000 * (1 - gapCount / totalCoreSkills), and between 0
\* and 100.
CoverageIsRounded ==
    LET c == report.totalCoreSkills
        g == report.gapCount
        n == TenthsOf(report.coveragePercent)
    IN  /\ IsFixed1(report.coveragePercent)
        /\ 2 * c * n <= 2000 * (c - g) + c
        /\ 2000 * (c - g) + c < 2 * c * n + 2 * c
        /\ n \in 0..1000

CatalogSection(name) ==
    LET coreSkills == Configured.fullstack.coreSkills
    IN  coreSkills[CHOOSE i \in 1..Len(coreSkills) :
                       coreSkills[i].name = name].section

\* How often the skill name occurs in a list of gaps.
Occurrences(list, name) ==
    Cardinality({i \in 1..Len(list) : list[i].skill = name})

SectionNames == {"frontend", "backend", "both"}

\* C20: in the report of a fullstack validation every gap (every core skill
\* the user did not name) is in exactly one of the sections frontend, backend
\* and both, the one of its catalog section tag; the three section counts add
\* up to gapCount; and evidence was fetched once for the union: one lookup
\* per provider for each gap.
C20_FullstackSections ==
    (method = "validateFullstack" /\ vpc = "returned") =>
        LET coreSkills == Configured.fullstack.coreSkills
            userSkillSet == {toLowerCase(userSkillNames[i]) :
                                i \in 1..Len(userSkillNames)}
            missing == {coreSkills[i].name : i \in
                           {j \in 1..Len(coreSkills) :
                               toLowerCase(coreSkills[j].name)
                                   \notin userSkillSet}}
        IN  /\ \A name \in missing : \A section \in SectionNames :
                   Occurrences(report.sections[section].gaps, name) =
                       IF section = CatalogSection(name) THEN 1 ELSE 0
            /\ \A section \in SectionNames :
                   /\ report.sections[section].count =
                          Len(report.sections[section].gaps)
                   /\ \A i \in 1..Len(report.sections[section].gaps) :
                          report.sections[section].gaps[i].skill \in missing
            /\ report.sections.frontend.count + report.sections.backend.count
                   + report.sections.both.count = report.gapCount
            /\ report.gapCount = Cardinality(missing)
            /\ DOMAIN lookups =
                   {<<i, p>> : i \in 1..report.gapCount, p \in 1..2}
            /\ \A name \in missing : Occurrences(gaps, name) = 1

\* A fullstack report with a gap in the frontend section and one in the
\* section both.
C20_Witness ==
    /\ method = "validateFullstack"
    /\ vpc = "returned"
    /\ report.sections.frontend.count = 1
    /\ report.sections.both.count = 1
    /\ report.gapCount = 2

(***************************************************************************)
(* Properties of apiKeyRateLimiter.                                        *)
(***************************************************************************)
\* C23: of the requests that carry a key, as githubToken or as soKey, at
\* most maxPerKey are handed to next() in one window of that key.
C23_EachKeyHasItsOwnLimit ==
    \A key \in RateKeys :
        carried[key] # Undefined => carried[key].passed <= maxPerKey

\* The skills of the gaps the validation found.
GapSkillNames == [i \in 1..Len(gaps) |-> gaps[i].skill]

\* C21: the report returned for a track of the catalog, fullstack included,
\* has the fields gaps, coveragePercent, learningOrder, suggestedNext and
\* keepSharp; learningOrder holds every gap skill once and nothing else, and
\* every suggestion of suggestedNext is for a gap skill.
C21_ReportCarriesOrderAndSuggestions ==
    (vpc = "returned" /\ track \in Tracks) =>
        /\ {"gaps", "coveragePercent", "learningOrder", "suggestedNext",
            "keepSharp"} \subseteq DOMAIN report
        /\ IsOrderingOf(report.learningOrder, GapSkillNames)
        /\ \A i \in 1..Len(report.suggestedNext) :
             report.suggestedNext[i].skill \in Range(GapSkillNames)

=============================================================================
